---- MODULE Spec2Model ----
(***************************************************************************)
(* Segment resolution and synchronisation engine of the prompt assistant   *)
(* (App component: processInput, the debounce effect, the tag-list         *)
(* handlers) together with the DictionaryService, the resolver of         *)
(* geminiService and the useHistory hook.                                  *)
(*                                                                         *)
(* Strings are sequences of one-character strings.  The characters used:   *)
(*   "a" "b" "c"   ASCII letters      "A" "B"  upper-case letters          *)
(*   "Z" "Y"       characters of the CJK range U+4E00..U+9FA5              *)
(*   ","  "FW" (the full-width comma U+FF0C)  "NL" (line feed)  " "        *)
(*   "(" ")" "[" "]" "{" "}" "<" ">" ":"  the prompt syntax characters     *)
(* Category names are ASCII stand-ins for the Chinese names of the source. *)
(***************************************************************************)
EXTENDS Integers, Sequences, FiniteSets, TLC

VARIABLES
    input,              \* useState input (the raw text)
    tags,               \* useState tags (the published tag list)
    tagCache,           \* tagCache.current : raw segment -> tag data
    prevTagsRef,        \* prevTagsRef.current
    latestInputRef,     \* latestInputRef.current
    isUpdatingFromTags, \* isUpdatingFromTags.current
    isInputChinese,     \* useState isInputChinese
    dragItem,           \* dragItem.current (0 stands for null)
    timer,              \* the debounce timer of the effect: <<>> or <<text>>
    passes,             \* processInput calls suspended at the await
    nextPass,           \* number of processInput calls so far (feeds generateId)
    userOps,            \* number of user gestures so far
    dictionary,         \* DictionaryService.dictionary
    storage,            \* localStorage[STORAGE_KEY]: <<>> (no item) or <<map>>
    storeFails,         \* every access to localStorage throws (storage is denied)
    changedSince,       \* history: passes whose input was changed after they began
    requested,          \* history: raw segments sent to the resolution service
    reloads,            \* the handleReloadTag calls that wait for the service
    insertTimers,       \* the 100 ms timers of the insert handlers, oldest first: their texts
    present,            \* useHistory: useState present
    historyRef,         \* useHistory: historyRef.current
    pointerRef,         \* useHistory: pointerRef.current (counted from 0)
    timerRef,           \* useHistory: the pending timer of set: <<>> or <<text, start, end>>
    observed            \* history: the last answer of the service or of a dictionary call

vars == <<input, tags, tagCache, prevTagsRef, latestInputRef, isUpdatingFromTags,
          isInputChinese, dragItem, timer, passes, nextPass, userOps, dictionary,
          storage, storeFails, changedSince, requested, insertTimers, reloads, observed,
          present, historyRef, pointerRef, timerRef>>

engineVars == <<input, tags, tagCache, prevTagsRef, latestInputRef, isUpdatingFromTags,
                isInputChinese, dragItem, timer, passes, nextPass, changedSince, requested,
                insertTimers, reloads>>

dictVars == <<dictionary, storage, storeFails>>

histVars == <<present, historyRef, pointerRef, timerRef>>

-----------------------------------------------------------------------------
(* Bounds of the model *)

\* segments per text the user types
MaxSegs == 2
\* processInput calls on a non-empty text in one behaviour
MaxPasses == 3
\* user gestures in one behaviour
MaxUserOps == 4
\* characters of a text in the segmenter specification
MaxTextLen == 4
\* tags in one learnBatch call of the dictionary specification
MaxBatch == 2
\* items in one classifySegments call
MaxClassify == 2

-----------------------------------------------------------------------------
(* Characters and strings *)

Delims == {",", "FW", "NL"}

Whitespace == {" "}

CJK == {"Z", "Y"}

OpenBrackets == {"(", "[", "{", "<"}

CloseBrackets == {")", "]", "}", ">"}

\* String.prototype.toLowerCase on one character
LowerChar(c) == IF c = "A" THEN "a" ELSE IF c = "B" THEN "b" ELSE c

toLowerCase(s) == [i \in 1..Len(s) |-> LowerChar(s[i])]

RECURSIVE TrimStart(_)
TrimStart(s) ==
    IF s # <<>> /\ Head(s) \in Whitespace THEN TrimStart(Tail(s)) ELSE s

RECURSIVE TrimEnd(_)
TrimEnd(s) ==
    IF s # <<>> /\ s[Len(s)] \in Whitespace THEN TrimEnd(SubSeq(s, 1, Len(s) - 1)) ELSE s

\* String.prototype.trim
Trim(s) == TrimEnd(TrimStart(s))

\* text.split(/,|FW|NL/): the pieces between single delimiter characters
RECURSIVE SplitPieces(_, _)
SplitPieces(text, cur) ==
    IF text = <<>> THEN <<cur>>
    ELSE IF Head(text) \in Delims
         THEN <<cur>> \o SplitPieces(Tail(text), <<>>)
         ELSE SplitPieces(Tail(text), Append(cur, Head(text)))

NonEmpty(s) == Len(s) > 0

\* a segmenter that keeps the white space around the pieces
splitWithoutTrim(text) == SelectSeq(SplitPieces(text, <<>>), NonEmpty)

splitInputToSegments(text) ==
    LET pieces == SplitPieces(text, <<>>)
        trimmed == [i \in 1..Len(pieces) |-> Trim(pieces[i])]
    IN  SelectSeq(trimmed, NonEmpty)

\* array.join(sep) of strings
RECURSIVE Join(_, _)
Join(strs, sep) ==
    IF strs = <<>> THEN <<>>
    ELSE IF Len(strs) = 1 THEN strs[1]
    ELSE strs[1] \o sep \o Join(Tail(strs), sep)

Range(f) == {f[i] : i \in DOMAIN f}

startsWith(s, c) == s # <<>> /\ s[1] = c

endsWith(s, c) == s # <<>> /\ s[Len(s)] = c

detectSyntax(text) ==
    IF startsWith(text, "<") /\ endsWith(text, ">") THEN "LoRA"
    ELSE IF startsWith(text, "{") /\ endsWith(text, "}") THEN "Dynamic"
    ELSE IF \/ startsWith(text, "(") /\ endsWith(text, ")")
            \/ startsWith(text, "[") /\ endsWith(text, "]") THEN "Weighted"
    ELSE "Normal"

RECURSIVE StripOpen(_)
StripOpen(s) == IF s # <<>> /\ Head(s) \in OpenBrackets THEN StripOpen(Tail(s)) ELSE s

RECURSIVE StripClose(_)
StripClose(s) ==
    IF s # <<>> /\ s[Len(s)] \in CloseBrackets THEN StripClose(SubSeq(s, 1, Len(s) - 1)) ELSE s

RECURSIVE BeforeColon(_)
BeforeColon(s) ==
    IF s = <<>> \/ Head(s) = ":" THEN <<>> ELSE <<Head(s)>> \o BeforeColon(Tail(s))

cleanTextForLookup(text) == Trim(BeforeColon(StripClose(StripOpen(text))))

\* /[一-龥]/.test(hint)
isChinese(s) == \E i \in 1..Len(s) : s[i] \in CJK

-----------------------------------------------------------------------------
(* Category names (ASCII stand-ins) and placeholders *)

\* the catch-all category of DEFAULT_CATEGORIES (id '9'), the fallback of normalizeTags
CatchAll == "Other"

\* category names of DEFAULT_CATEGORIES
CategoryNames == {"Character", "Scene", CatchAll}

\* the '...' placeholder of a pending tag
Placeholder == "..."

\* the empty string of a missing text field, as a string of characters
NoText == <<>>

-----------------------------------------------------------------------------
(* DictionaryService *)

\* the bundled seed entries: one seed key stands for the seed set
SEED_DICTIONARY ==
    (<<"b">> :> [translation |-> <<"Z">>, category |-> "Character"])

HasKey(map, k) == k \in DOMAIN map

Put(map, k, v) == (k :> v) @@ map

Restrict(map, keys) == [k \in keys |-> map[k]]

\* JSON.stringify drops a property whose value is undefined
JsonEntry(e) ==
    IF "syntaxType" \in DOMAIN e /\ e.syntaxType = "undefined"
    THEN [translation |-> e.translation, category |-> e.category]
    ELSE e

\* JSON.parse(JSON.stringify(map))
JsonRoundTrip(map) == [k \in DOMAIN map |-> JsonEntry(map[k])]

\* constructor + loadFromStorage: the seed, overlaid by the stored map; the seed
\* alone when getItem throws (the catch only warns)
loadFromStorage(stored) ==
    IF storeFails \/ stored = <<>> THEN SEED_DICTIONARY
    ELSE JsonRoundTrip(stored[1]) @@ SEED_DICTIONARY

\* a saveToStorage that persists the whole dictionary, seed keys included
saveToStorageUnfiltered(dict) == <<JsonRoundTrip(dict)>>

\* saveToStorage: the entries whose key is not a seed key; the store as it is
\* when setItem throws (the catch only warns)
saveToStorage(dict) ==
    IF storeFails THEN storage
    ELSE <<JsonRoundTrip(Restrict(dict, {k \in DOMAIN dict : ~HasKey(SEED_DICTIONARY, k)}))>>

\* lookup: <<>> for null, <<entry>> otherwise
lookup(dict, text) ==
    LET normalized == Trim(toLowerCase(text))
    IN  IF HasKey(dict, normalized) THEN <<dict[normalized]>> ELSE <<>>

DictKey(tag) == Trim(toLowerCase(tag.englishText))

\* learn(tag): the dictionary and the store after the call
learn(dict, store, tag) ==
    LET normalized == DictKey(tag)
        same == [dictionary |-> dict, storage |-> store]
    IN  IF tag.englishText = NoText THEN same
        ELSE IF tag.category = CatchAll THEN same
        ELSE IF HasKey(SEED_DICTIONARY, normalized) THEN same
        ELSE IF /\ HasKey(dict, normalized)
                /\ dict[normalized].category = tag.category
                /\ dict[normalized].translation = tag.translation THEN same
        ELSE LET d2 == Put(dict, normalized,
                           [translation |-> tag.translation,
                            category    |-> tag.category,
                            syntaxType  |-> IF tag.syntaxType = "Normal"
                                            THEN "undefined" ELSE tag.syntaxType])
             IN  [dictionary |-> d2, storage |-> saveToStorage(d2)]

\* a forEach body of learnBatch without the filter on the catch-all category
LearnOneUnfiltered(dict, tag) ==
    LET normalized == DictKey(tag)
    IN  IF HasKey(SEED_DICTIONARY, normalized) THEN dict
        ELSE IF HasKey(dict, normalized) THEN dict
        ELSE Put(dict, normalized,
                 [translation |-> tag.translation,
                  category    |-> tag.category,
                  syntaxType  |-> tag.syntaxType])

\* the forEach body of learnBatch on one tag
LearnOne(dict, tag) ==
    LET normalized == DictKey(tag)
    IN  IF tag.category = CatchAll THEN dict
        ELSE IF HasKey(SEED_DICTIONARY, normalized) THEN dict
        ELSE IF HasKey(dict, normalized) THEN dict
        ELSE Put(dict, normalized,
                 [translation |-> tag.translation,
                  category    |-> tag.category,
                  syntaxType  |-> tag.syntaxType])

RECURSIVE LearnAll(_, _)
LearnAll(dict, tagSeq) ==
    IF tagSeq = <<>> THEN dict ELSE LearnAll(LearnOne(dict, Head(tagSeq)), Tail(tagSeq))

\* learnBatch(tags): the store is written when some entry was added
learnBatch(dict, store, tagSeq) ==
    LET d2 == LearnAll(dict, tagSeq)
    IN  [dictionary |-> d2,
         storage    |-> IF d2 # dict THEN saveToStorage(d2) ELSE store]

\* clearLearned: removeItem, then the seed again; removeItem is not inside a
\* try, so when it throws the call ends there and the exception reaches the caller
clearLearned ==
    IF storeFails
    THEN [dictionary |-> dictionary, storage |-> storage, threw |-> TRUE]
    ELSE [dictionary |-> SEED_DICTIONARY, storage |-> <<>>, threw |-> FALSE]

isPrefix(q, s) == Len(q) <= Len(s) /\ SubSeq(s, 1, Len(q)) = q

includes(s, q) == \E i \in 0..(Len(s) - Len(q)) : SubSeq(s, i + 1, i + Len(q)) = q

\* the score search gives one dictionary entry
SearchScore(key, entry, q) ==
    LET keyLower == toLowerCase(key)
        transLower == toLowerCase(entry.translation)
    IN  IF keyLower = q \/ transLower = q THEN 100
        ELSE IF isPrefix(q, keyLower) THEN 80
        ELSE IF isPrefix(q, transLower) THEN 70
        ELSE IF includes(keyLower, q) THEN 50
        ELSE IF includes(transLower, q) THEN 40
        ELSE 0

\* search(query): the matching keys with their scores (the ranking of the
\* results and the limit are presentation and are not modelled)
search(dict, query) ==
    LET q == Trim(toLowerCase(query))
    IN  IF q = <<>> THEN {}
        ELSE {<<k, SearchScore(k, dict[k], q)>> : k \in {x \in DOMAIN dict : SearchScore(x, dict[x], q) > 0}}

-----------------------------------------------------------------------------
(* The resolution service: parseSegmentsWithGemini *)

\* the entries {en, cn, cat} a reply may hold; NoText and "" stand for a
\* missing or empty field, "Bogus" for a category that is not among the names
\* of the request
ReplyItems ==
    { [en |-> NoText, cn |-> <<"Z">>, cat |-> "Character"],
      [en |-> <<"b">>, cn |-> <<"Z", "FW", "Y">>, cat |-> "Bogus"],
      [en |-> NoText, cn |-> NoText, cat |-> ""] }

SeqsUpTo(S, n) == UNION {[1..k -> S] : k \in 0..n}

\* the reply arrays for a request of n segments: any length up to n
Replies(n) == SeqsUpTo(ReplyItems, n)

EmptyItem == [en |-> NoText, cn |-> NoText, cat |-> ""]

\* a normalizeTags that maps over the reply instead of the original segments
normalizeReplyOnly(resultList, originalSegments) ==
    [index \in 1..Len(resultList) |->
        LET segment == originalSegments[index]
            item == resultList[index]
        IN  [raw         |-> segment,
             englishText |-> IF item.en # NoText THEN item.en ELSE segment,
             translation |-> IF item.cn # NoText THEN item.cn ELSE segment,
             category    |-> IF item.cat # "" THEN item.cat ELSE CatchAll,
             syntaxType  |-> detectSyntax(Trim(segment))]]

\* normalizeTags: one result per original segment, by index
normalizeTags(resultList, originalSegments) ==
    [index \in 1..Len(originalSegments) |->
        LET segment == originalSegments[index]
            item == IF index <= Len(resultList) THEN resultList[index] ELSE EmptyItem
        IN  [raw         |-> segment,
             englishText |-> IF item.en # NoText THEN item.en ELSE segment,
             translation |-> IF item.cn # NoText THEN item.cn ELSE segment,
             category    |-> IF item.cat # "" THEN item.cat ELSE CatchAll,
             syntaxType  |-> detectSyntax(Trim(segment))]]

\* parseSegmentsWithGemini on a reply that parsed: segments that trim to empty are
\* dropped before the call
parseSegmentsWithGemini(segments, reply) ==
    normalizeTags(reply, SelectSeq(segments, LAMBDA x : Len(Trim(x)) > 0))

-----------------------------------------------------------------------------
(* processInput *)

\* generateId: the tag built by processInput call number no at position index
generateId(no, index) == <<no, index>>

WithId(data, id) ==
    [id |-> id, raw |-> data.raw, englishText |-> data.englishText,
     translation |-> data.translation, category |-> data.category,
     syntaxType |-> data.syntaxType, disabled |-> data.disabled,
     isRefreshing |-> data.isRefreshing]

WithoutId(tag) ==
    [raw |-> tag.raw, englishText |-> tag.englishText,
     translation |-> tag.translation, category |-> tag.category,
     syntaxType |-> tag.syntaxType, disabled |-> tag.disabled,
     isRefreshing |-> tag.isRefreshing]

\* the DIFF step: a tag that was disabled and whose raw text left the input has
\* the disabled flag of its cache entry reset
DiffReset(cache, prevTags, currentRawSet) ==
    [k \in DOMAIN cache |->
        IF \E i \in 1..Len(prevTags) :
              /\ prevTags[i].raw = k
              /\ prevTags[i].disabled
              /\ k \notin currentRawSet
        THEN [cache[k] EXCEPT !.disabled = FALSE]
        ELSE cache[k]]

\* tag data of a dictionary hit whose raw text is the text that was looked up
DictTagDataCore(segment, coreText, dictEntry) ==
    [raw          |-> coreText,
     englishText  |-> IF dictEntry.translation = coreText THEN segment ELSE coreText,
     translation  |-> dictEntry.translation,
     category     |-> dictEntry.category,
     syntaxType   |-> detectSyntax(segment),
     disabled     |-> FALSE,
     isRefreshing |-> FALSE]

\* the tag data built on a dictionary hit
DictTagData(segment, coreText, dictEntry) ==
    [raw          |-> segment,
     englishText  |-> IF dictEntry.translation = coreText THEN segment ELSE coreText,
     translation  |-> dictEntry.translation,
     category     |-> dictEntry.category,
     syntaxType   |-> detectSyntax(segment),
     disabled     |-> FALSE,
     isRefreshing |-> FALSE]

\* the placeholder tag of a segment that is neither cached nor in the dictionary
PendingTag(segment, id) ==
    [id |-> id, raw |-> segment, englishText |-> segment,
     translation |-> <<Placeholder>>, category |-> Placeholder,
     syntaxType |-> detectSyntax(segment), disabled |-> FALSE, isRefreshing |-> TRUE]

\* the first pass over the segments from position index on; acc holds newTags,
\* the cache and missingSegmentIndices built so far
RECURSIVE FirstPass(_, _, _, _, _)
FirstPass(rawSegments, index, acc, dict, no) ==
    IF index > Len(rawSegments) THEN acc
    ELSE
      LET segment == rawSegments[index]
          coreText == cleanTextForLookup(segment)
          dictEntry == lookup(dict, coreText)
          next ==
            IF HasKey(acc.cache, segment)
            THEN [acc EXCEPT !.newTags = Append(@, WithId(acc.cache[segment], generateId(no, index)))]
            ELSE IF dictEntry # <<>>
            THEN LET tagData == DictTagData(segment, coreText, dictEntry[1])
                 IN  [acc EXCEPT !.cache = Put(@, segment, tagData),
                                 !.newTags = Append(@, WithId(tagData, generateId(no, index)))]
            ELSE [acc EXCEPT !.newTags = Append(@, PendingTag(segment, generateId(no, index))),
                             !.missing = Append(@, index)]
      IN  FirstPass(rawSegments, index + 1, next, dict, no)

\* the list as it is, duplicates kept
UniqueKeepingDuplicates(xs) == xs

\* Array.from(new Set(xs)): the first occurrences, in order
RECURSIVE Unique(_)
Unique(xs) ==
    IF xs = <<>> THEN <<>>
    ELSE LET init == Unique(SubSeq(xs, 1, Len(xs) - 1))
             x == xs[Len(xs)]
         IN  IF x \in Range(init) THEN init ELSE Append(init, x)

\* processInput(currentInput) up to its await (or its return, when nothing is missing)
processInput(currentInput) ==
    LET rawSegments == splitInputToSegments(currentInput)
        cache1 == DiffReset(tagCache, prevTagsRef, Range(rawSegments))
        no == nextPass + 1
    IN  /\ IF Len(rawSegments) = 0
           THEN /\ tags' = <<>>
                /\ nextPass' = nextPass
                /\ prevTagsRef' = <<>>
                /\ tagCache' = cache1
                /\ UNCHANGED <<passes, requested>>
           ELSE LET r == FirstPass(rawSegments, 1,
                                   [newTags |-> <<>>, cache |-> cache1, missing |-> <<>>],
                                   dictionary, no)
                    uniqueMissing == Unique([i \in 1..Len(r.missing) |-> rawSegments[r.missing[i]]])
                IN  /\ tags' = r.newTags
                    /\ nextPass' = no
                    /\ prevTagsRef' = r.newTags
                    /\ tagCache' = r.cache
                    /\ IF r.missing # <<>>
                       THEN /\ passes' = passes \cup
                                   {[no |-> no, currentInput |-> currentInput,
                                     rawSegments |-> rawSegments, newTags |-> r.newTags,
                                     missingSegmentIndices |-> r.missing,
                                     uniqueMissing |-> uniqueMissing, hinted |-> FALSE]}
                            /\ requested' = requested \cup Range(uniqueMissing)
                       ELSE UNCHANGED <<passes, requested>>

-----------------------------------------------------------------------------
(* React state updates and the two effects on [input] *)

PassNos == {p.no : p \in passes}

\* setInput(newInput) by a handler that leaves isUpdatingFromTags at flag and
\* latestInputRef at latest, followed by the render and its effects: the
\* latestInputRef effect, then the debounce effect (cleanup of the old timer, then
\* either the flag is consumed or a new timer is set).  An unchanged input causes
\* no effect run.
SetInput(newInput, flag, latest) ==
    IF newInput = input
    THEN /\ UNCHANGED <<input, timer, changedSince>>
         /\ latestInputRef' = latest
         /\ isUpdatingFromTags' = flag
    ELSE /\ input' = newInput
         /\ latestInputRef' = newInput
         /\ isUpdatingFromTags' = FALSE
         /\ timer' = IF flag THEN <<>> ELSE <<newInput>>
         /\ changedSince' = changedSince \cup PassNos

\* the text regenerated from the list, without the flag
updateInputUnflagged(currentTags) ==
    SetInput(Join([i \in 1..Len(currentTags) |-> currentTags[i].raw], <<",", " ">>),
             FALSE, latestInputRef)

\* updateInputFromTags(currentTags)
updateInputFromTags(currentTags) ==
    SetInput(Join([i \in 1..Len(currentTags) |-> currentTags[i].raw], <<",", " ">>),
             TRUE, latestInputRef)

-----------------------------------------------------------------------------
(* Texts the user types *)

Literals == {<<"a">>, <<"b">>}

UserTexts == {Join(segs, <<",">>) : segs \in SeqsUpTo(Literals, MaxSegs)}

-----------------------------------------------------------------------------
(* Actions *)

\* a user gesture: one at a time, a bounded number in a behaviour
UserOp ==
    /\ dragItem = 0
    /\ userOps < MaxUserOps
    /\ userOps' = userOps + 1

\* handleInputChange: the text area reports a changed value
handleInputChange(val) ==
    /\ UserOp
    /\ val # input
    /\ SetInput(val, isUpdatingFromTags, latestInputRef)
    /\ UNCHANGED <<histVars, reloads, insertTimers, observed, tags, tagCache, prevTagsRef, isInputChinese, dragItem, passes,
                   nextPass, requested, dictVars>>

\* the debounce timer (800 ms) fires: processInput(input of the render that set
\* it).  An insert handler sets its 100 ms timer in the event that restarts the
\* debounce timer, and every later edit restarts the debounce timer again, so a
\* pending insert timer fires first (an insertion that leaves the text as it was
\* does not restart the debounce timer; its 100 ms timer is taken to fire first
\* as well).
TimerFires ==
    /\ timer # <<>>
    /\ insertTimers = <<>>
    /\ (nextPass < MaxPasses \/ splitInputToSegments(timer[1]) = <<>>)
    /\ processInput(timer[1])
    /\ timer' = <<>>
    /\ UNCHANGED <<histVars, reloads, insertTimers, observed, userOps, input, latestInputRef, isUpdatingFromTags, isInputChinese, dragItem,
                   changedSince, dictVars>>

\* the hint a tag takes in onProgress
ApplyHint(t, hint) ==
    IF isChinese(hint) THEN [t EXCEPT !.translation = hint]
    ELSE [t EXCEPT !.englishText = hint, !.translation = t.raw]

\* transMap of onProgress: the hint of a raw segment, <<>> when it has none
HintOf(p, translations, raw) ==
    LET idxs == {i \in 1..Len(p.uniqueMissing) :
                    /\ p.uniqueMissing[i] = raw
                    /\ i <= Len(translations)
                    /\ translations[i] # NoText}
    IN  IF idxs = {} THEN <<>> ELSE <<translations[CHOOSE i \in idxs : TRUE]>>

\* onProgress without its race check
onProgressUnguarded(p, translations) ==
    LET updated == [i \in 1..Len(tags) |->
                       IF tags[i].isRefreshing /\ HintOf(p, translations, tags[i].raw) # <<>>
                       THEN ApplyHint(tags[i], HintOf(p, translations, tags[i].raw)[1])
                       ELSE tags[i]]
    IN  /\ tags' = updated
        /\ prevTagsRef' = updated

\* onProgress(translations) of pass p
onProgress(p, translations) ==
    IF latestInputRef # p.currentInput
    THEN UNCHANGED <<tags, prevTagsRef>>
    ELSE LET updated == [i \in 1..Len(tags) |->
                            IF tags[i].isRefreshing /\ HintOf(p, translations, tags[i].raw) # <<>>
                            THEN ApplyHint(tags[i], HintOf(p, translations, tags[i].raw)[1])
                            ELSE tags[i]]
         IN  /\ tags' = updated
             /\ prevTagsRef' = updated

HintTexts == {NoText, <<"Z">>, <<"c">>}

\* the service reports its pre-translations for pass p, once, before its answer
ServiceHint(p, translations) ==
    /\ ~p.hinted
    /\ onProgress(p, translations)
    /\ passes' = (passes \ {p}) \cup {[p EXCEPT !.hinted = TRUE]}
    /\ UNCHANGED <<histVars, reloads, insertTimers, observed, userOps, input, tagCache, latestInputRef, isUpdatingFromTags, isInputChinese,
                   dragItem, timer, nextPass, changedSince, requested, dictVars>>

\* results.forEach: the cache entry written for each result
RECURSIVE CacheResults(_, _)
CacheResults(cache, results) ==
    IF results = <<>> THEN cache
    ELSE LET res == Head(results)
         IN  CacheResults(Put(cache, res.raw,
                              [raw |-> res.raw, englishText |-> res.englishText,
                               translation |-> res.translation, category |-> res.category,
                               syntaxType |-> res.syntaxType, disabled |-> FALSE,
                               isRefreshing |-> FALSE]),
                          Tail(results))

\* the Race Guard of processInput: TRUE when the pass may commit
RaceGuard(p) == latestInputRef = p.currentInput

\* updatedTags of the final commit
UpdatedTags(p, cache) ==
    [index \in 1..Len(p.newTags) |->
        IF index \in Range(p.missingSegmentIndices)
        THEN IF HasKey(cache, p.rawSegments[index])
             THEN [WithId(cache[p.rawSegments[index]], p.newTags[index].id)
                       EXCEPT !.isRefreshing = FALSE]
             ELSE [p.newTags[index] EXCEPT !.isRefreshing = FALSE, !.category = "Unknown"]
        ELSE p.newTags[index]]

\* a processInput that consults the Race Guard before it writes the cache and
\* the dictionary
ServiceResolvesGuardFirst(p, reply) ==
    LET results == parseSegmentsWithGemini(p.uniqueMissing, reply)
        cache2 == CacheResults(tagCache, results)
        learned == learnBatch(dictionary, storage, results)
    IN  /\ tagCache' = IF RaceGuard(p) THEN cache2 ELSE tagCache
        /\ dictionary' = IF RaceGuard(p) THEN learned.dictionary ELSE dictionary
        /\ storage' = IF RaceGuard(p) THEN learned.storage ELSE storage
        /\ UNCHANGED storeFails
        /\ IF RaceGuard(p)
           THEN /\ tags' = UpdatedTags(p, cache2)
                /\ prevTagsRef' = UpdatedTags(p, cache2)
           ELSE UNCHANGED <<tags, prevTagsRef>>
        /\ passes' = passes \ {p}
        /\ changedSince' = changedSince \ {p.no}
        /\ observed' = [op |-> "resolved", stale |-> p.no \in changedSince,
                        short |-> Len(reply) < Len(p.uniqueMissing)]
        /\ UNCHANGED <<histVars, reloads, insertTimers, userOps, input, latestInputRef, isUpdatingFromTags, isInputChinese,
                       dragItem, timer, nextPass, requested>>

\* the await of pass p resolves with the reply array
ServiceResolves(p, reply) ==
    LET results == parseSegmentsWithGemini(p.uniqueMissing, reply)
        cache2 == CacheResults(tagCache, results)
        learned == learnBatch(dictionary, storage, results)
    IN  /\ tagCache' = cache2
        /\ dictionary' = learned.dictionary
        /\ storage' = learned.storage
        /\ UNCHANGED storeFails
        /\ IF RaceGuard(p)
           THEN /\ tags' = UpdatedTags(p, cache2)
                /\ prevTagsRef' = UpdatedTags(p, cache2)
           ELSE UNCHANGED <<tags, prevTagsRef>>
        /\ passes' = passes \ {p}
        /\ changedSince' = changedSince \ {p.no}
        /\ observed' = [op |-> "resolved", stale |-> p.no \in changedSince,
                        short |-> Len(reply) < Len(p.uniqueMissing)]
        /\ UNCHANGED <<histVars, reloads, insertTimers, userOps, input, latestInputRef, isUpdatingFromTags, isInputChinese,
                       dragItem, timer, nextPass, requested>>

\* the tags after the catch block of processInput
FailedTags(p) ==
    [i \in 1..Len(tags) |-> [tags[i] EXCEPT !.isRefreshing = FALSE]]

\* how the promise of processInput settles when the await threw and the catch
\* block rethrew the error
SettledRethrown(p) == "rejected"

\* how the promise of processInput settles when the await threw: the catch
\* block logs the error and returns
SettledAfterCatch(p) == "fulfilled"

\* the await of pass p rejects (network or parse error)
ServiceRejects(p) ==
    /\ IF RaceGuard(p)
       THEN /\ tags' = FailedTags(p)
            /\ prevTagsRef' = FailedTags(p)
       ELSE UNCHANGED <<tags, prevTagsRef>>
    /\ passes' = passes \ {p}
    /\ changedSince' = changedSince \ {p.no}
    /\ observed' = [op |-> "rejected", stale |-> p.no \in changedSince,
                    promise |-> SettledAfterCatch(p)]
    /\ UNCHANGED <<histVars, reloads, insertTimers, userOps, input, tagCache, latestInputRef, isUpdatingFromTags, isInputChinese,
                   dragItem, timer, nextPass, requested, dictVars>>

\* the values JSON.parse may give for the answer of the provider to a request of
\* n segments: null, a scalar, one object, an array of objects (of any length up
\* to n + 1), or an object with such an array in its tags property
Payloads(n) ==
    {[kind |-> "null", items |-> <<>>], [kind |-> "scalar", items |-> <<>>]}
    \cup {[kind |-> "object", items |-> <<item>>] : item \in ReplyItems}
    \cup {[kind |-> kind, items |-> items] :
              kind \in {"array", "wrapped"}, items \in SeqsUpTo(ReplyItems, n + 1)}

\* normalizeTags: reading aiResult.tags of null throws a TypeError
NormalizeThrows(aiResult) == aiResult.kind = "null"

\* normalizeTags: the resultList taken from aiResult
ResultList(aiResult) ==
    IF aiResult.kind \in {"wrapped", "array", "object"} THEN aiResult.items ELSE <<>>

\* the provider answered pass p with a JSON value: parseSegmentsWithGemini
\* normalises it, or rethrows what normalizeTags threw
ServiceAnswers(p, aiResult) ==
    IF NormalizeThrows(aiResult) THEN ServiceRejects(p)
    ELSE ServiceResolves(p, ResultList(aiResult))

\* the cache with the disabled flag of key raw set to value, when raw is cached
SetCachedDisabled(cache, raw, value) ==
    IF HasKey(cache, raw) THEN [cache EXCEPT ![raw].disabled = value] ELSE cache

RemoveAt(s, i) == SubSeq(s, 1, i - 1) \o SubSeq(s, i + 1, Len(s))

InsertAt(s, i, x) == SubSeq(s, 1, i - 1) \o <<x>> \o SubSeq(s, i, Len(s))

\* handleRemoveTag(id) for the tag at position i
handleRemoveTag(i) ==
    /\ UserOp
    /\ i \in 1..Len(tags)
    /\ tagCache' = SetCachedDisabled(tagCache, tags[i].raw, FALSE)
    /\ tags' = RemoveAt(tags, i)
    /\ updateInputFromTags(RemoveAt(tags, i))
    /\ UNCHANGED <<histVars, reloads, insertTimers, observed, prevTagsRef, isInputChinese, dragItem, passes, nextPass, requested,
                   dictVars>>

\* handleToggleTag(tag) for the tag at position i
handleToggleTag(i) ==
    /\ UserOp
    /\ i \in 1..Len(tags)
    /\ LET newStatus == ~tags[i].disabled
           updated == [tags EXCEPT ![i].disabled = newStatus]
       IN  /\ tags' = updated
           /\ prevTagsRef' = updated
           /\ tagCache' = SetCachedDisabled(tagCache, tags[i].raw, newStatus)
    /\ UNCHANGED <<histVars, reloads, insertTimers, observed, input, latestInputRef, isUpdatingFromTags, isInputChinese, dragItem,
                   timer, passes, nextPass, changedSince, requested, dictVars>>

handleDragStart(index) ==
    /\ UserOp
    /\ index \in 1..Len(tags)
    /\ dragItem' = index
    /\ UNCHANGED <<histVars, reloads, insertTimers, observed, input, tags, tagCache, prevTagsRef, latestInputRef, isUpdatingFromTags,
                   isInputChinese, timer, passes, nextPass, changedSince, requested,
                   dictVars>>

\* handleDragEnter over the tag at position index (both positions exist)
handleDragEnter(index) ==
    /\ dragItem # 0
    /\ dragItem # index
    /\ dragItem \in 1..Len(tags)
    /\ index \in 1..Len(tags)
    /\ LET newTags == InsertAt(RemoveAt(tags, dragItem), index, tags[dragItem])
       IN  /\ tags' = newTags
           /\ prevTagsRef' = newTags
    /\ dragItem' = index
    /\ UNCHANGED <<histVars, reloads, insertTimers, observed, userOps, input, tagCache, latestInputRef, isUpdatingFromTags, isInputChinese,
                   timer, passes, nextPass, changedSince, requested, dictVars>>

handleDragEnd ==
    /\ dragItem # 0
    /\ dragItem' = 0
    /\ updateInputFromTags(tags)
    /\ UNCHANGED <<histVars, reloads, insertTimers, observed, userOps, tags, tagCache, prevTagsRef, isInputChinese, passes, nextPass,
                   requested, dictVars>>

handleClear ==
    /\ UserOp
    /\ SetInput(<<>>, isUpdatingFromTags, latestInputRef)
    /\ tags' = <<>>
    /\ prevTagsRef' = <<>>
    /\ UNCHANGED <<histVars, reloads, insertTimers, observed, tagCache, isInputChinese, dragItem, passes, nextPass, requested,
                   dictVars>>

-----------------------------------------------------------------------------
(* handleLanguageToggle *)

LeadingWs(part) == SubSeq(part, 1, Len(part) - Len(TrimStart(part)))

TrailingWs(part) == SubSeq(part, Len(TrimEnd(part)) + 1, Len(part))

\* the target text of a tag, <<>> when the part is kept: no tag at that index, a
\* refreshing tag, or the target form is missing
FlipTarget(tagIndex, nextIsChinese) ==
    IF tagIndex > Len(tags) THEN <<>>
    ELSE LET currentTag == tags[tagIndex]
             hasTranslation == currentTag.translation # NoText
                               /\ currentTag.translation # <<Placeholder>>
             hasEnglish == currentTag.englishText # NoText
         IN  IF currentTag.isRefreshing THEN <<>>
             ELSE IF nextIsChinese /\ ~hasTranslation THEN <<>>
             ELSE IF ~nextIsChinese /\ ~hasEnglish THEN <<>>
             ELSE <<IF nextIsChinese THEN currentTag.translation ELSE currentTag.englishText>>

\* one text part of input.split(/([,FW NL]+)/) handled by the map callback; acc
\* holds the text rebuilt so far, the next tag index and cacheUpdates
FlipPart(part, acc, nextIsChinese) ==
    IF Trim(part) = <<>> THEN [acc EXCEPT !.out = @ \o part]
    ELSE LET target == FlipTarget(acc.tagIndex, nextIsChinese)
         IN  IF target = <<>>
             THEN [acc EXCEPT !.out = @ \o part, !.tagIndex = @ + 1]
             ELSE [out |-> acc.out \o LeadingWs(part) \o target[1] \o TrailingWs(part),
                   tagIndex |-> acc.tagIndex + 1,
                   cacheUpdates |-> Put(acc.cacheUpdates, target[1],
                                        WithoutId([tags[acc.tagIndex] EXCEPT !.raw = target[1]]))]

\* the parts of the text from left to right; cur is the text part being read
RECURSIVE FlipScan(_, _, _, _)
FlipScan(text, cur, acc, nextIsChinese) ==
    IF text = <<>> THEN FlipPart(cur, acc, nextIsChinese)
    ELSE IF Head(text) \in Delims
         THEN FlipScan(Tail(text), <<>>,
                       [FlipPart(cur, acc, nextIsChinese) EXCEPT !.out = @ \o <<Head(text)>>],
                       nextIsChinese)
         ELSE FlipScan(Tail(text), Append(cur, Head(text)), acc, nextIsChinese)

handleLanguageToggle ==
    /\ UserOp
    /\ LET nextIsChinese == ~isInputChinese
           r == FlipScan(input, <<>>, [out |-> <<>>, tagIndex |-> 1, cacheUpdates |-> <<>>],
                         nextIsChinese)
       IN  /\ tagCache' = r.cacheUpdates @@ tagCache
           /\ SetInput(r.out, isUpdatingFromTags, r.out)
           /\ isInputChinese' = nextIsChinese
    /\ UNCHANGED <<histVars, reloads, insertTimers, observed, tags, prevTagsRef, dragItem, passes, nextPass, requested, dictVars>>

-----------------------------------------------------------------------------
(* useHistory: the undo stack of the text *)

MAX_HISTORY == 100

\* the texts the hook is given: two, so that consecutive entries of the stack differ
HistoryTexts == {<<>>, <<"a">>}

\* a history entry
HistoryState(text, selectionStart, selectionEnd) ==
    [text |-> text, selectionStart |-> selectionStart, selectionEnd |-> selectionEnd]

\* useHistory(''): the state after the first render
HistoryInit ==
    /\ present = <<>>
    /\ historyRef = <<HistoryState(<<>>, 0, 0)>>
    /\ pointerRef = 0
    /\ timerRef = <<>>

\* a push that does not cap the size of the stack
pushUncapped(text, selectionStart, selectionEnd) ==
    /\ timerRef' = <<>>
    /\ IF historyRef[pointerRef + 1].text = text
       THEN /\ historyRef' = [historyRef EXCEPT
                                 ![pointerRef + 1] = HistoryState(text, selectionStart, selectionEnd)]
            /\ UNCHANGED pointerRef
       ELSE LET newHistory == Append(SubSeq(historyRef, 1, pointerRef + 1),
                                     HistoryState(text, selectionStart, selectionEnd))
            IN  /\ historyRef' = newHistory
                /\ pointerRef' = Len(newHistory) - 1
    /\ present' = text
    /\ UNCHANGED <<engineVars, userOps, dictVars, observed>>

\* push(text, selectionStart, selectionEnd): clears the timer; the same text as
\* the entry at the pointer only rewrites the selection of that entry; another
\* text cuts the redo steps, is appended, and the oldest entry is shifted out
\* when the stack exceeds MAX_HISTORY
push(text, selectionStart, selectionEnd) ==
    /\ timerRef' = <<>>
    /\ IF historyRef[pointerRef + 1].text = text
       THEN /\ historyRef' = [historyRef EXCEPT
                                 ![pointerRef + 1] = HistoryState(text, selectionStart, selectionEnd)]
            /\ UNCHANGED pointerRef
       ELSE LET pushed == Append(SubSeq(historyRef, 1, pointerRef + 1),
                                 HistoryState(text, selectionStart, selectionEnd))
                newHistory == IF Len(pushed) > MAX_HISTORY THEN Tail(pushed) ELSE pushed
            IN  /\ historyRef' = newHistory
                /\ pointerRef' = Len(newHistory) - 1
    /\ present' = text
    /\ UNCHANGED <<engineVars, userOps, dictVars, observed>>

\* a set that takes its snapshot at once
setUndebounced(text, selectionStart, selectionEnd) ==
    push(text, selectionStart, selectionEnd)

\* set(text, selectionStart, selectionEnd): the text is shown at once and the
\* debounce timer (600 ms) restarts; the timer keeps the arguments of the call
set(text, selectionStart, selectionEnd) ==
    /\ present' = text
    /\ timerRef' = <<text, selectionStart, selectionEnd>>
    /\ UNCHANGED <<historyRef, pointerRef, engineVars, userOps, dictVars, observed>>

\* the timer of set fires: push when the text differs from the entry at the pointer
HistoryTimerFires ==
    /\ timerRef # <<>>
    /\ IF historyRef[pointerRef + 1].text # timerRef[1]
       THEN push(timerRef[1], timerRef[2], timerRef[3])
       ELSE /\ timerRef' = <<>>
            /\ UNCHANGED <<present, historyRef, pointerRef, engineVars, userOps, dictVars, observed>>

\* undo(): returns null at the bottom of the stack
undo ==
    /\ pointerRef > 0
    /\ timerRef' = <<>>
    /\ pointerRef' = pointerRef - 1
    /\ present' = historyRef[pointerRef].text
    /\ UNCHANGED <<historyRef, engineVars, userOps, dictVars, observed>>

\* redo(): returns null at the top of the stack
redo ==
    /\ pointerRef < Len(historyRef) - 1
    /\ timerRef' = <<>>
    /\ pointerRef' = pointerRef + 1
    /\ present' = historyRef[pointerRef + 2].text
    /\ UNCHANGED <<historyRef, engineVars, userOps, dictVars, observed>>

\* clear(): a pending timer of set is left running
clear ==
    /\ historyRef' = <<HistoryState(<<>>, 0, 0)>>
    /\ pointerRef' = 0
    /\ present' = <<>>
    /\ UNCHANGED <<timerRef, engineVars, userOps, dictVars, observed>>

-----------------------------------------------------------------------------
(* The engine: specification Spec *)

EmptyMap == <<>>

\* the engine after the first render: the effect on the empty text has set a timer
EngineInit ==
    /\ input = <<>>
    /\ tags = <<>>
    /\ tagCache = EmptyMap
    /\ prevTagsRef = <<>>
    /\ latestInputRef = <<>>
    /\ isUpdatingFromTags = FALSE
    /\ isInputChinese = FALSE
    /\ dragItem = 0
    /\ timer = << <<>> >>
    /\ passes = {}
    /\ nextPass = 0
    /\ userOps = 0
    /\ changedSince = {}
    /\ requested = {}
    /\ insertTimers = <<>>
    /\ reloads = {}
    /\ HistoryInit

Init ==
    /\ EngineInit
    /\ storage = <<>>
    /\ storeFails = FALSE
    /\ dictionary = loadFromStorage(<<>>)
    /\ observed = [op |-> "none"]

Next ==
    \/ \E val \in UserTexts : handleInputChange(val)
    \/ TimerFires
    \/ \E p \in passes : \E translations \in [1..Len(p.uniqueMissing) -> HintTexts] :
          ServiceHint(p, translations)
    \/ \E p \in passes : \E reply \in Replies(Len(p.uniqueMissing)) : ServiceResolves(p, reply)
    \/ \E p \in passes : ServiceRejects(p)
    \/ \E i \in 1..Len(tags) : handleRemoveTag(i)
    \/ \E i \in 1..Len(tags) : handleToggleTag(i)
    \/ \E i \in 1..Len(tags) : handleDragStart(i)
    \/ \E i \in 1..Len(tags) : handleDragEnter(i)
    \/ handleDragEnd
    \/ handleLanguageToggle
    \/ handleClear

Spec == Init /\ [][Next]_vars

-----------------------------------------------------------------------------
(* classifySegments *)

CLASSIFICATION_BATCH_SIZE == 12

\* chunkArray(array, size)
RECURSIVE chunkArray(_, _)
chunkArray(array, size) ==
    IF array = <<>> THEN <<>>
    ELSE IF Len(array) <= size THEN <<array>>
    ELSE <<SubSeq(array, 1, size)>> \o chunkArray(SubSeq(array, size + 1, Len(array)), size)

Fill(n, x) == [i \in 1..n |-> x]

\* a chunk callback that gives no fallback when the provider call throws
ClassifyChunkThrowEmpty(inputs, outcome, categoryNames) ==
    IF outcome.kind = "throw" THEN <<>>
    ELSE IF outcome.kind = "nonarray" THEN Fill(Len(inputs), CatchAll)
    ELSE IF Len(outcome.cats) # Len(inputs)
         THEN SubSeq(outcome.cats \o Fill(Len(inputs), CatchAll), 1, Len(inputs))
         ELSE [i \in 1..Len(inputs) |->
                  IF outcome.cats[i] \in categoryNames THEN outcome.cats[i] ELSE CatchAll]

\* the chunk callback of classifySegments; outcome is what the provider call of
\* the chunk gave: "throw", "nonarray", or an array of category strings
ClassifyChunk(inputs, outcome, categoryNames) ==
    IF outcome.kind = "throw" THEN Fill(Len(inputs), CatchAll)
    ELSE IF outcome.kind = "nonarray" THEN Fill(Len(inputs), CatchAll)
    ELSE IF Len(outcome.cats) # Len(inputs)
         THEN SubSeq(outcome.cats \o Fill(Len(inputs), CatchAll), 1, Len(inputs))
         ELSE [i \in 1..Len(inputs) |->
                  IF outcome.cats[i] \in categoryNames THEN outcome.cats[i] ELSE CatchAll]

RECURSIVE Flat(_)
Flat(seqs) == IF seqs = <<>> THEN <<>> ELSE Head(seqs) \o Flat(Tail(seqs))

\* classifySegments(tags, categories): outcomes holds one provider outcome per chunk
classifySegments(tagTexts, outcomes, categoryNames) ==
    IF tagTexts = <<>> THEN <<>>
    ELSE LET chunks == chunkArray(tagTexts, CLASSIFICATION_BATCH_SIZE)
         IN  Flat([c \in 1..Len(chunks) |-> ClassifyChunk(chunks[c], outcomes[c], categoryNames)])

\* category strings a provider may answer: a valid name and an unknown one
AnswerCats == {"Character", "Bogus"}

\* what the provider call of a chunk of n items may give
ChunkOutcomes(n) ==
    {[kind |-> "throw", cats |-> <<>>], [kind |-> "nonarray", cats |-> <<>>]}
    \cup {[kind |-> "array", cats |-> cats] : cats \in SeqsUpTo(AnswerCats, n + 1)}

NumChunks(n) == (n + CLASSIFICATION_BATCH_SIZE - 1) \div CLASSIFICATION_BATCH_SIZE

\* lists longer than one chunk: one chunk and a rest of up to MaxClassify items,
\* and two chunks and one item
LongLengths ==
    (CLASSIFICATION_BATCH_SIZE + 1 .. CLASSIFICATION_BATCH_SIZE + MaxClassify)
    \cup {2 * CLASSIFICATION_BATCH_SIZE + 1}

\* what the provider call of a chunk of a long list may give: no array, or an
\* array of one category string, as long as a full chunk, as a rest, or one longer
LongOutcomes ==
    {[kind |-> "throw", cats |-> <<>>], [kind |-> "nonarray", cats |-> <<>>]}
    \cup {[kind |-> "array", cats |-> Fill(len, cat)] :
             len \in {1, 2, CLASSIFICATION_BATCH_SIZE, CLASSIFICATION_BATCH_SIZE + 1},
             cat \in AnswerCats}

\* a call of classifySegments on n items
ClassifyCall(n, outcomes) ==
    /\ observed' = [op |-> "classifySegments", n |-> n, outcomes |-> outcomes,
                    result |-> classifySegments(Fill(n, <<"a">>), outcomes, CategoryNames)]
    /\ UNCHANGED <<histVars, engineVars, userOps, dictVars>>

-----------------------------------------------------------------------------
(* Calls of the DictionaryService *)

\* tags handed to learn and learnBatch
LearnTags ==
    [englishText : {NoText, <<"a">>, <<"A", " ">>, <<"B">>},
     translation : {<<"Z">>, <<"Y">>},
     category : {"Character", CatchAll},
     syntaxType : {"Normal", "Weighted"}]

\* the tags of a batch are results of the resolver
BatchTags == {tag \in LearnTags : tag.translation = <<"Z">> /\ tag.syntaxType = "Normal"}

DictLearn(tag) ==
    /\ dictionary' = learn(dictionary, storage, tag).dictionary
    /\ storage' = learn(dictionary, storage, tag).storage
    /\ UNCHANGED storeFails
    /\ observed' = [op |-> "learn", tags |-> <<tag>>]
    /\ UNCHANGED <<histVars, engineVars, userOps>>

DictLearnBatch(tagSeq) ==
    /\ dictionary' = learnBatch(dictionary, storage, tagSeq).dictionary
    /\ storage' = learnBatch(dictionary, storage, tagSeq).storage
    /\ UNCHANGED storeFails
    /\ observed' = [op |-> "learnBatch", tags |-> tagSeq]
    /\ UNCHANGED <<histVars, engineVars, userOps>>

DictLookup(text) ==
    /\ observed' = [op |-> "lookup", result |-> lookup(dictionary, text)]
    /\ UNCHANGED <<histVars, engineVars, userOps, dictVars>>

DictSearch(query) ==
    /\ observed' = [op |-> "search", result |-> search(dictionary, query)]
    /\ UNCHANGED <<histVars, engineVars, userOps, dictVars>>

DictClearLearned ==
    /\ dictionary' = clearLearned.dictionary
    /\ storage' = clearLearned.storage
    /\ observed' = [op |-> "clearLearned", threw |-> clearLearned.threw]
    /\ UNCHANGED storeFails
    /\ UNCHANGED <<histVars, engineVars, userOps>>

\* the page is loaded again: new DictionaryService()
DictReload ==
    /\ dictionary' = loadFromStorage(storage)
    /\ observed' = [op |-> "reload"]
    /\ UNCHANGED <<histVars, engineVars, userOps, storage, storeFails>>

QueryTexts == {<<"a">>, <<"B">>, <<"Z">>, <<" ">>}

\* what an earlier session may have left in the store
StoredMaps ==
    {<<>>, <<(<<"a">> :> [translation |-> <<"Z">>, category |-> "Character"])>>}

InitDict ==
    /\ EngineInit
    /\ storage \in StoredMaps
    /\ storeFails = FALSE
    /\ dictionary = loadFromStorage(storage)
    /\ observed = [op |-> "none"]

\* the service is constructed where every localStorage access throws
InitStore ==
    /\ EngineInit
    /\ storage \in StoredMaps
    /\ storeFails = TRUE
    /\ dictionary = loadFromStorage(storage)
    /\ observed = [op |-> "none"]

NextDict ==
    \/ \E tag \in LearnTags : DictLearn(tag)
    \/ \E tagSeq \in SeqsUpTo(BatchTags, MaxBatch) : DictLearnBatch(tagSeq)
    \/ \E text \in QueryTexts : DictLookup(text)
    \/ \E query \in QueryTexts : DictSearch(query)
    \/ DictClearLearned
    \/ DictReload

SpecDict == InitDict /\ [][NextDict]_vars

SpecStore == InitStore /\ [][NextDict]_vars

-----------------------------------------------------------------------------
(* The resolver on its own: specification SpecSvc *)

UnknownLiterals == {<<"a">>, <<"c">>}

SvcTexts == {Join(segs, <<",">>) : segs \in SeqsUpTo(UnknownLiterals, MaxSegs)}

\* the user has typed a text and the debounce timer is running
TypedInit(texts) ==
    /\ input \in texts
    /\ latestInputRef = input
    /\ timer = <<input>>
    /\ tags = <<>>
    /\ tagCache = EmptyMap
    /\ prevTagsRef = <<>>
    /\ isUpdatingFromTags = FALSE
    /\ isInputChinese = FALSE
    /\ dragItem = 0
    /\ passes = {}
    /\ nextPass = 0
    /\ userOps = 0
    /\ changedSince = {}
    /\ requested = {}
    /\ insertTimers = <<>>
    /\ reloads = {}
    /\ HistoryInit
    /\ storage = <<>>
    /\ storeFails = FALSE
    /\ dictionary = loadFromStorage(<<>>)
    /\ observed = [op |-> "none"]

InitSvc == TypedInit(SvcTexts)

NextSvc ==
    \/ TimerFires
    \/ \E p \in passes : \E translations \in [1..Len(p.uniqueMissing) -> HintTexts] :
          ServiceHint(p, translations)
    \/ \E p \in passes : \E aiResult \in Payloads(Len(p.uniqueMissing)) :
          ServiceAnswers(p, aiResult)
    \/ \E p \in passes : ServiceRejects(p)
    \/ \E n \in 0..MaxClassify : \E outcomes \in [1..NumChunks(n) -> ChunkOutcomes(n)] :
          ClassifyCall(n, outcomes)

SpecSvc == InitSvc /\ [][NextSvc]_vars

-----------------------------------------------------------------------------
(* The segmenter under every short text: specification SpecText *)

TextChars == {"a", "c", ",", "FW", "NL", " "}

AllTexts == SeqsUpTo(TextChars, MaxTextLen)

InitText == TypedInit(AllTexts)

NextText ==
    \/ TimerFires
    \/ \E p \in passes : \E reply \in Replies(Len(p.uniqueMissing)) : ServiceResolves(p, reply)
    \/ \E i \in 1..Len(tags) : handleRemoveTag(i)
    \/ \E i \in 1..Len(tags) : handleDragStart(i)
    \/ \E i \in 1..Len(tags) : handleDragEnter(i)
    \/ handleDragEnd

SpecText == InitText /\ [][NextText]_vars

-----------------------------------------------------------------------------
(* handleReloadTag, and the tag list on its own: specification SpecTags *)

\* reloads that wait for the service at the same time
MaxReloads == 1

Without(map, k) == Restrict(map, DOMAIN map \ {k})

\* handleReloadTag(tagToReload) for the tag at position i, up to its await
handleReloadTag(i) ==
    /\ UserOp
    /\ Cardinality(reloads) < MaxReloads
    /\ i \in 1..Len(tags)
    /\ tags' = [tags EXCEPT ![i].isRefreshing = TRUE]
    /\ tagCache' = Without(tagCache, tags[i].raw)
    /\ reloads' = reloads \cup
                     {[id |-> tags[i].id, raw |-> tags[i].raw, disabled |-> tags[i].disabled]}
    /\ UNCHANGED <<histVars, insertTimers, observed, input, prevTagsRef, latestInputRef, isUpdatingFromTags,
                   isInputChinese, dragItem, timer, passes, nextPass, changedSince, requested,
                   dictVars>>

\* { ...result, id: t.id, isRefreshing: false }: result has no disabled field
ReloadedTag(result, id) ==
    [id |-> id, raw |-> result.raw, englishText |-> result.englishText,
     translation |-> result.translation, category |-> result.category,
     syntaxType |-> result.syntaxType, disabled |-> FALSE, isRefreshing |-> FALSE]

\* the await of the reload r resolves with the reply array
ReloadResolves(r, reply) ==
    LET result == parseSegmentsWithGemini(<<r.raw>>, reply)[1]
        learned == learn(dictionary, storage, result)
        updated == [i \in 1..Len(tags) |->
                       IF tags[i].id = r.id THEN ReloadedTag(result, r.id) ELSE tags[i]]
    IN  /\ tagCache' = Put(tagCache, result.raw,
                           [raw |-> result.raw, englishText |-> result.englishText,
                            translation |-> result.translation, category |-> result.category,
                            syntaxType |-> result.syntaxType, disabled |-> r.disabled,
                            isRefreshing |-> FALSE])
        /\ dictionary' = learned.dictionary
        /\ storage' = learned.storage
        /\ tags' = updated
        /\ prevTagsRef' = updated
        /\ reloads' = reloads \ {r}
        /\ UNCHANGED <<histVars, insertTimers, observed, userOps, input, latestInputRef, isUpdatingFromTags,
                       isInputChinese, dragItem, timer, passes, nextPass, changedSince,
                       requested, storeFails>>

\* the await of the reload r rejects
ReloadRejects(r) ==
    /\ tags' = [i \in 1..Len(tags) |->
                   IF tags[i].id = r.id THEN [tags[i] EXCEPT !.isRefreshing = FALSE]
                   ELSE tags[i]]
    /\ reloads' = reloads \ {r}
    /\ UNCHANGED <<histVars, insertTimers, observed, userOps, input, tagCache, prevTagsRef, latestInputRef,
                   isUpdatingFromTags, isInputChinese, dragItem, timer, passes, nextPass,
                   changedSince, requested, dictVars>>

\* an unknown literal, and a seed key with a weight
TagLiterals == {<<"a">>, <<"(", "b", ")">>}

TagTexts == {Join(segs, <<",">>) : segs \in SeqsUpTo(TagLiterals, MaxSegs)}

\* user gestures under SpecTags
MaxTagOps == 3

InitTags == TypedInit(TagTexts)

NextTags ==
    \/ TimerFires
    \/ \E p \in passes : \E reply \in Replies(Len(p.uniqueMissing)) : ServiceResolves(p, reply)
    \/ userOps < MaxTagOps /\ handleLanguageToggle
    \/ userOps < MaxTagOps /\ \E i \in 1..Len(tags) : handleReloadTag(i)
    \/ \E r \in reloads : \E reply \in Replies(1) : ReloadResolves(r, reply)
    \/ \E r \in reloads : ReloadRejects(r)

SpecTags == InitTags /\ [][NextTags]_vars

-----------------------------------------------------------------------------
(* Properties of the DictionaryService, under SpecDict *)

\* the keys a call added to the dictionary or gave another entry
Written(before, after) ==
    {k \in DOMAIN after : ~HasKey(before, k) \/ before[k] # after[k]}

\* tag may be learnt: no seed entry for its key, and not the catch-all category
Learnable(tag) == ~HasKey(SEED_DICTIONARY, DictKey(tag)) /\ tag.category # CatchAll

LearnedFrom(entry, tag) ==
    /\ entry.translation = tag.translation
    /\ entry.category = tag.category

\* C9: learn and learnBatch write an entry for a key only when the seed has no
\* entry for that key and the category of the tag is not the catch-all one; a
\* call in which no tag meets both conditions leaves the dictionary and the
\* persisted store as they were.
C9_LearnConditions ==
    [][observed'.op \in {"learn", "learnBatch"} =>
         LET tagSeq == observed'.tags
         IN  /\ DOMAIN dictionary \subseteq DOMAIN dictionary'
             /\ \A k \in Written(dictionary, dictionary') :
                   \E i \in 1..Len(tagSeq) :
                      /\ k = DictKey(tagSeq[i])
                      /\ Learnable(tagSeq[i])
                      /\ LearnedFrom(dictionary'[k], tagSeq[i])
             /\ (\A i \in 1..Len(tagSeq) : ~Learnable(tagSeq[i])) => UNCHANGED dictVars
       ]_vars

\* a learnBatch call has added an entry and persisted it, and the dictionary
\* holds exactly the seed and the persisted entries
C9_Witness ==
    /\ observed.op = "learnBatch"
    /\ storage # <<>>
    /\ \E k \in DOMAIN storage[1] : ~HasKey(SEED_DICTIONARY, k) /\ HasKey(dictionary, k)

\* C10: whatever calls were made, every seed key maps to its seed entry, the
\* persisted map holds no seed key, and right after clearLearned the dictionary
\* is the seed and the persisted map is gone.
C10_SeedImmutable ==
    /\ \A k \in DOMAIN SEED_DICTIONARY :
          HasKey(dictionary, k) /\ dictionary[k] = SEED_DICTIONARY[k]
    /\ storage # <<>> => DOMAIN storage[1] \cap DOMAIN SEED_DICTIONARY = {}
    /\ observed.op = "clearLearned" => dictionary = SEED_DICTIONARY /\ storage = <<>>

\* entries were learnt and persisted, and the dictionary was loaded again
C10_Witness ==
    /\ observed.op = "reload"
    /\ storage # <<>>
    /\ DOMAIN storage[1] # {}
    /\ DOMAIN dictionary = DOMAIN SEED_DICTIONARY \cup DOMAIN storage[1]

-----------------------------------------------------------------------------
(* Properties of the resolution engine, under Spec *)

\* the passes that end, or receive their hints, in a step
Advanced == passes \ passes'

\* C1: a pass whose text was replaced while it waited never writes to the
\* published list: the step in which such a pass receives hints, resolves or
\* fails leaves the list as it was.
C1_StalePassNeverWrites ==
    [][\A p \in Advanced : p.no \in changedSince => tags' = tags]_vars

\* nothing is scheduled: no debounce timer, no pass in flight, no drag under way
Quiescent == timer = <<>> /\ passes = {} /\ dragItem = 0

\* C2: once the engine has settled, the cache holds a disabled flag only for
\* literals that are segments of the text.
C2_NoDisabledFlagForAbsentLiteral ==
    Quiescent =>
        \A k \in DOMAIN tagCache :
            tagCache[k].disabled => k \in Range(splitInputToSegments(input))

\* C3: a pass never sends the service a literal that an earlier pass has
\* already sent.
C3_NoSecondServiceCall ==
    [][nextPass' # nextPass =>
          \A p \in passes' : p.no = nextPass' => Range(p.uniqueMissing) \cap requested = {}]_vars

\* C4: once no timer is pending and every service call has settled, no tag
\* of the published list is pending.
C4_NoTagLeftPending ==
    (timer = <<>> /\ passes = {}) => \A i \in 1..Len(tags) : ~tags[i].isRefreshing

\* every tag is resolved and has both language forms, and the list is the
\* segmentation of the text
BothFormsAligned ==
    /\ tags # <<>>
    /\ passes = {}
    /\ \A i \in 1..Len(tags) :
          /\ ~tags[i].isRefreshing
          /\ tags[i].englishText # NoText
          /\ tags[i].translation # NoText
          /\ tags[i].translation # <<Placeholder>>
    /\ splitInputToSegments(input) = [i \in 1..Len(tags) |-> tags[i].raw]

\* the segments a pass on text would send to the service
MissingOf(text, cache, dict) ==
    FirstPass(splitInputToSegments(text), 1,
              [newTags |-> <<>>, cache |-> cache, missing |-> <<>>], dict, 0).missing

\* C6: after a language flip of a list whose tags all have both forms, the
\* pass on the rewritten text finds every segment and sends nothing to the
\* service.
C6_FlipNeedsNoServiceCall ==
    [][(isInputChinese' # isInputChinese /\ BothFormsAligned) =>
          MissingOf(input', tagCache', dictionary') = <<>>]_vars

\* the category labels a failed resolution may show
FallbackLabels == {"Unknown", "unknown", CatchAll}

\* C8: when the service call of the current pass fails, every tag that was
\* pending becomes non-pending and carries the fallback category.
C8_FailureGivesFallbackCategory ==
    [][\A p \in passes :
          (ServiceRejects(p) /\ RaceGuard(p)) =>
              \A i \in 1..Len(tags) :
                  tags[i].isRefreshing =>
                      /\ i <= Len(tags')
                      /\ ~tags'[i].isRefreshing
                      /\ tags'[i].category \in FallbackLabels]_vars

-----------------------------------------------------------------------------
(* Properties of the segmenter, under SpecText *)

RawsOf(tagSeq) == [i \in 1..Len(tagSeq) |-> tagSeq[i].raw]

\* C5: joining the raw fields of the published tags with ', ' and segmenting
\* the joined text again gives the same list of raw fields.
C5_RoundTripStable ==
    splitInputToSegments(Join(RawsOf(tags), <<",", " ">>)) = RawsOf(tags)

\* a pass has published two tags from a text that is not their plain join
C5_Witness ==
    /\ nextPass >= 1
    /\ Len(tags) = 2
    /\ input # Join(RawsOf(tags), <<",">>)
    /\ input # Join(RawsOf(tags), <<",", " ">>)
    /\ splitInputToSegments(input) = RawsOf(tags)

-----------------------------------------------------------------------------
(* Properties of the resolver, under SpecSvc *)

\* the positions of the list that pass p left pending for literal
PendingFor(p, literal) ==
    {i \in Range(p.missingSegmentIndices) : p.rawSegments[i] = literal}

\* what the commit of pass p on reply must have left in the list and the cache
ShortReplyCommitted(p, reply) ==
    /\ Len(tags') = Len(splitInputToSegments(p.currentInput))
    /\ RawsOf(tags') = splitInputToSegments(p.currentInput)
    /\ \A j \in 1..Len(p.uniqueMissing) :
          /\ HasKey(tagCache', p.uniqueMissing[j])
          /\ tagCache'[p.uniqueMissing[j]].raw = p.uniqueMissing[j]
          /\ \A i \in PendingFor(p, p.uniqueMissing[j]) :
                /\ ~tags'[i].isRefreshing
                /\ (j > Len(reply)) => (tags'[i].category = CatchAll)
                /\ (j <= Len(reply) /\ reply[j].cat # "") => (tags'[i].category = reply[j].cat)

\* what a call of classifySegments on n items must have given
ShortAnswerPadded(n, outcomes, result) ==
    /\ Len(result) = n
    /\ \A i \in 1..n :
          LET c == ((i - 1) \div CLASSIFICATION_BATCH_SIZE) + 1
              k == i - (c - 1) * CLASSIFICATION_BATCH_SIZE
          IN  (outcomes[c].kind # "array" \/ k > Len(outcomes[c].cats)) => (result[i] = CatchAll)

\* C7: when the reply array is shorter than the request, the current pass
\* still has one result for every requested segment, in request order, a
\* segment without a reply entry gets the catch-all category, and the
\* published list keeps the length and the order of the segment list;
\* classifySegments gives one category per item, the catch-all one for every
\* item past the end of a short answer.
C7_ShortReplyResilience ==
    [][/\ \A p \in passes : \A reply \in Replies(Len(p.uniqueMissing)) :
             (ServiceResolves(p, reply) /\ RaceGuard(p)) => ShortReplyCommitted(p, reply)
       /\ (observed'.op = "classifySegments") =>
             ShortAnswerPadded(observed'.n, observed'.outcomes, observed'.result)
      ]_vars

\* the current pass resolved with one reply entry for two requested segments
C7_Witness ==
    /\ observed.op = "resolved"
    /\ observed.short
    /\ ~observed.stale
    /\ Len(tags) = 2
    /\ tags[1].category = "Character"
    /\ tags[2].category = CatchAll
    /\ tags[2].raw # tags[1].raw

-----------------------------------------------------------------------------
(* The insert handlers: applySuggestion and handleInsertFromCollection *)

\* keys of the suggestions the autocomplete list offers
SuggestionKeys == {<<"b">>}

\* texts inserted from the collection sidebar
CollectionTexts == {<<"a">>}

\* the index where the segment around the caret begins (the while loop of
\* applySuggestion): characters before it are text[1..start]
RECURSIVE SegmentStart(_, _)
SegmentStart(text, start) ==
    IF start > 0 /\ text[start] \notin Delims THEN SegmentStart(text, start - 1) ELSE start

\* rawSegment.match(/^[([{<]+/): the leading opening brackets
RECURSIVE LeadingOpen(_)
LeadingOpen(s) ==
    IF s # <<>> /\ Head(s) \in OpenBrackets THEN <<Head(s)>> \o LeadingOpen(Tail(s)) ELSE <<>>

\* newText of applySuggestion for the caret after caretPos characters
SuggestionText(text, caretPos, key) ==
    LET start == SegmentStart(text, caretPos)
        prefix == SubSeq(text, 1, start)
        suffix == SubSeq(text, caretPos + 1, Len(text))
        rawSegment == SubSeq(text, start + 1, caretPos)
    IN  prefix \o LeadingOpen(rawSegment) \o key \o suffix

\* applySuggestion: the text is replaced, and processInput(newText) is scheduled
\* 100 ms later, next to the debounce timer that the changed text restarts
applySuggestion(caretPos, key) ==
    /\ UserOp
    /\ LET newText == SuggestionText(input, caretPos, key)
       IN  /\ Len(splitInputToSegments(newText)) <= MaxSegs
           /\ SetInput(newText, isUpdatingFromTags, latestInputRef)
           /\ insertTimers' = Append(insertTimers, newText)
    /\ UNCHANGED <<histVars, reloads, observed, tags, tagCache, prevTagsRef, isInputChinese, dragItem,
                   passes, nextPass, requested, dictVars>>

\* newText of handleInsertFromCollection (the text area is mounted)
InsertionText(text, caretPos, textToInsert) ==
    LET prefix == SubSeq(text, 1, caretPos)
        suffix == SubSeq(text, caretPos + 1, Len(text))
        withLead == IF Trim(prefix) # <<>> /\ ~endsWith(Trim(prefix), ",")
                    THEN <<",", " ">> \o textToInsert ELSE textToInsert
        insertStr == IF Trim(suffix) # <<>> /\ ~startsWith(Trim(suffix), ",")
                     THEN withLead \o <<",", " ">> ELSE withLead
    IN  prefix \o insertStr \o suffix

\* handleInsertFromCollection
handleInsertFromCollection(caretPos, textToInsert) ==
    /\ UserOp
    /\ LET newText == InsertionText(input, caretPos, textToInsert)
       IN  /\ Len(splitInputToSegments(newText)) <= MaxSegs
           /\ SetInput(newText, isUpdatingFromTags, latestInputRef)
           /\ insertTimers' = Append(insertTimers, newText)
    /\ UNCHANGED <<histVars, reloads, observed, tags, tagCache, prevTagsRef, isInputChinese, dragItem,
                   passes, nextPass, requested, dictVars>>

\* the oldest 100 ms timer fires: processInput(newText)
InsertTimerFires ==
    /\ insertTimers # <<>>
    /\ (nextPass < MaxPasses \/ splitInputToSegments(Head(insertTimers)) = <<>>)
    /\ processInput(Head(insertTimers))
    /\ insertTimers' = Tail(insertTimers)
    /\ UNCHANGED <<histVars, reloads, observed, userOps, input, latestInputRef, isUpdatingFromTags, isInputChinese,
                   dragItem, timer, changedSince, dictVars>>

TypedTexts == {<<>>, <<"a">>}

InsertNext ==
    \/ \E val \in TypedTexts : handleInputChange(val)
    \/ \E caretPos \in 0..Len(input) : \E key \in SuggestionKeys : applySuggestion(caretPos, key)
    \/ \E caretPos \in 0..Len(input) : \E textToInsert \in CollectionTexts :
          handleInsertFromCollection(caretPos, textToInsert)
    \/ TimerFires
    \/ InsertTimerFires
    \/ \E p \in passes : \E reply \in Replies(Len(p.uniqueMissing)) : ServiceResolves(p, reply)
    \/ \E p \in passes : ServiceRejects(p)

SpecInsert == Init /\ [][InsertNext]_vars

-----------------------------------------------------------------------------
(* Scheduling of passes, under SpecInsert *)

\* the passes that are scheduled and have not started
ScheduledPasses == Len(insertTimers) + (IF timer = <<>> THEN 0 ELSE 1)

\* C14: an edit cancels the pass that the edit before it scheduled and schedules
\* one pass itself, so at any moment at most one pass is scheduled.
C14_OnePassPerEdit == ScheduledPasses <= 1

-----------------------------------------------------------------------------
(* translateWithBaidu: specification SpecBaidu *)

\* texts of one request
MaxLines == 2

BaiduTexts == SeqsUpTo({<<"a">>, <<"c">>}, MaxLines)

\* the dst fields of trans_result
BaiduLines == SeqsUpTo({<<"Z">>, <<"Y">>}, MaxLines + 1)

\* what the JSONP callback is called with: error_code set or not, trans_result
\* absent (<<>>) or an array of lines (<<lines>>)
BaiduResponses ==
    [error_code : BOOLEAN, trans_result : {<<>>} \cup {<<lines>> : lines \in BaiduLines}]

Fulfilled(value) == [state |-> "fulfilled", value |-> value]

Rejected == [state |-> "rejected", value |-> <<>>]

\* a callback that hands the lines on whatever their number
BaiduCallbackUnchecked(texts, data) ==
    IF data.error_code THEN Rejected
    ELSE IF data.trans_result # <<>> THEN Fulfilled(data.trans_result[1])
    ELSE Rejected

\* window[callbackName](data): how the promise settles
BaiduCallback(texts, data) ==
    IF data.error_code THEN Rejected
    ELSE IF data.trans_result # <<>>
         THEN LET results == data.trans_result[1]
              IN  IF Len(results) # Len(texts) THEN Fulfilled(texts) ELSE Fulfilled(results)
    ELSE Rejected

\* translateWithBaidu(texts, config) when the response arrives in time
translateWithBaidu(texts, data) ==
    IF Len(texts) = 0 THEN Fulfilled(<<>>) ELSE BaiduCallback(texts, data)

\* a call that the service answers with data
BaiduAnswers(texts, data) ==
    /\ observed' = [op |-> "translateWithBaidu", texts |-> texts, data |-> data,
                    settled |-> translateWithBaidu(texts, data)]
    /\ UNCHANGED <<histVars, engineVars, userOps, dictVars>>

\* a call that no response answers within JSONP_TIMEOUT
BaiduTimeout(texts) ==
    /\ observed' = [op |-> "translateWithBaidu", texts |-> texts,
                    data |-> [error_code |-> FALSE, trans_result |-> <<>>],
                    settled |-> IF Len(texts) = 0 THEN Fulfilled(<<>>) ELSE Rejected]
    /\ UNCHANGED <<histVars, engineVars, userOps, dictVars>>

NextBaidu ==
    \/ \E texts \in BaiduTexts : \E data \in BaiduResponses : BaiduAnswers(texts, data)
    \/ \E texts \in BaiduTexts : BaiduTimeout(texts)

SpecBaidu == Init /\ [][NextBaidu]_vars

\* the response carries translations, and their number is not that of the texts
LengthMismatch ==
    /\ observed.op = "translateWithBaidu"
    /\ ~observed.data.error_code
    /\ observed.data.trans_result # <<>>
    /\ Len(observed.data.trans_result[1]) # Len(observed.texts)

-----------------------------------------------------------------------------
(* Categories the resolver gives, under SpecSvc *)

\* the names of the request and the fallbacks
ValidCategories == CategoryNames \cup FallbackLabels

\* C17: whatever the shape of the response, every category that classifySegments
\* returns, that the cache stores and that a resolved tag shows is one of the
\* names of the request or the fallback.
C17_CategoryValid ==
    /\ observed.op = "classifySegments" =>
          \A i \in 1..Len(observed.result) : observed.result[i] \in ValidCategories
    /\ \A k \in DOMAIN tagCache : tagCache[k].category \in ValidCategories
    /\ \A i \in 1..Len(tags) :
          ~tags[i].isRefreshing => tags[i].category \in ValidCategories \cup {Placeholder}

-----------------------------------------------------------------------------
(* The DictionaryService without a store, under SpecStore *)

\* C15: where the store cannot be read or written no dictionary operation
\* throws: clearLearned returns normally and leaves the seed set.
C15_StoreFailureNotFatal ==
    observed.op = "clearLearned" => (~observed.threw /\ dictionary = SEED_DICTIONARY)

-----------------------------------------------------------------------------
(* Text changes that come from the list, under SpecText *)

\* a step of handleRemoveTag or handleDragEnd
TagListMutation == dragItem' = 0 /\ (userOps' # userOps \/ dragItem # 0)

-----------------------------------------------------------------------------
(* What a pass sends to the service, under SpecInsert *)

\* the segments that neither the cache nor the dictionary knows
UnknownSegments(rawSegments, cache, dict) ==
    {s \in Range(rawSegments) :
        ~HasKey(cache, s) /\ lookup(dict, cleanTextForLookup(s)) = <<>>}

\* the passes that end in a step
Ended == {p \in passes : \A q \in passes' : q.no # p.no}

\* the passes whose service call is made in a step
Started == {p \in passes' : \A q \in passes : q.no # p.no}

\* the text of the pass that a timer starts in a step
StartedInput == IF insertTimers' # insertTimers THEN Head(insertTimers) ELSE timer[1]

\* C12: the synchronous phase of a pass calls the service only when a segment is
\* in neither the cache nor the dictionary, with exactly those segments, each
\* once; when every segment is known no call is made and no tag is pending.
C12_MinimalServiceUse ==
    [][(nextPass' = nextPass + 1) =>
          LET rawSegments == splitInputToSegments(StartedInput)
              unknown == UnknownSegments(rawSegments, tagCache, dictionary)
          IN  /\ (unknown = {}) =>
                    /\ Started = {}
                    /\ requested' = requested
                    /\ \A i \in 1..Len(tags') : ~tags'[i].isRefreshing
              /\ (unknown # {}) =>
                    \E p \in Started :
                        /\ Started = {p}
                        /\ Range(p.uniqueMissing) = unknown
                        /\ Len(p.uniqueMissing) = Cardinality(unknown)]_vars

\* a pass is waiting whose text names an unknown segment twice
C12_Witness ==
    \E p \in passes :
        /\ Len(p.missingSegmentIndices) > Len(p.uniqueMissing)
        /\ Range(p.uniqueMissing) = {p.rawSegments[i] : i \in Range(p.missingSegmentIndices)}

-----------------------------------------------------------------------------
(* The list against the text, under SpecTags *)

\* one tag per segment, in order, each with the segment as its raw text
Aligned(tagList, rawSegments) ==
    /\ Len(tagList) = Len(rawSegments)
    /\ \A i \in 1..Len(rawSegments) : tagList[i].raw = rawSegments[i]

\* every cache entry is stored under its own raw text
CacheKeyedByRaw == \A k \in DOMAIN tagCache : tagCache[k].raw = k

\* C18: right after the synchronous phase of a pass on a text, and after the
\* commit of a pass that is not stale, the list has one tag per segment of the
\* text, in order, with the segment as raw text; after the synchronous phase
\* tag i is pending exactly when segment i was in neither the cache nor the
\* dictionary; and every cache entry is stored under its raw text.
C18_PositionalAlignment ==
    [][/\ CacheKeyedByRaw'
       /\ (nextPass' = nextPass + 1) =>
             LET rawSegments == splitInputToSegments(StartedInput)
                 unknown == UnknownSegments(rawSegments, tagCache, dictionary)
             IN  /\ Aligned(tags', rawSegments)
                 /\ \A i \in 1..Len(rawSegments) :
                       tags'[i].isRefreshing <=> (rawSegments[i] \in unknown)
       /\ \A p \in Ended :
             (RaceGuard(p) /\ observed'.op = "resolved") =>
                 /\ Aligned(tags', splitInputToSegments(p.currentInput))
                 /\ \A i \in 1..Len(tags') : ~tags'[i].isRefreshing]_vars

\* a pass waits for the unknown first segment next to the weighted seed key
C18_Witness ==
    \E p \in passes :
        /\ RaceGuard(p)
        /\ Len(tags) = 2
        /\ tags[1].isRefreshing
        /\ ~tags[2].isRefreshing
        /\ tags[2].raw = <<"(", "b", ")">>
        /\ Aligned(tags, splitInputToSegments(input))

\* C19: in every published list, after any passes, flips and reloads, the
\* syntax kind of each tag is the kind that detectSyntax gives on the tag's raw
\* text.
C19_SyntaxDetectedLocally ==
    \A i \in 1..Len(tags) : tags[i].syntaxType = detectSyntax(tags[i].raw)

-----------------------------------------------------------------------------
(* Toggling a tag, under Spec *)

\* a step of handleToggleTag
ToggleStep == userOps' # userOps /\ Len(tags') = Len(tags) /\ tags' # tags

\* C20: a toggle negates disabled on the targeted tag and sets the cache entry
\* of its raw text to the same value; the other tags, the order and the text
\* stay; and toggling the same tag once more gives back the tag list and the
\* cache of before.
C20_ToggleFlipsTagAndCache ==
    [][ToggleStep =>
          \E i \in 1..Len(tags) :
              /\ tags' = [tags EXCEPT ![i].disabled = ~tags[i].disabled]
              /\ tagCache' = SetCachedDisabled(tagCache, tags[i].raw, ~tags[i].disabled)
              /\ input' = input
              /\ [tags' EXCEPT ![i].disabled = ~tags'[i].disabled] = tags
              /\ SetCachedDisabled(tagCache', tags'[i].raw, ~tags'[i].disabled) = tagCache]_vars

-----------------------------------------------------------------------------
(* Failures of the resolver, under SpecSvc *)

-----------------------------------------------------------------------------
(* The tag-list handlers on their own: specification SpecList *)

InitList == TypedInit(UserTexts)

\* the element that splice(index, 0, undefined) puts into the list
UndefinedTag ==
    [id |-> <<0, 0>>, raw |-> <<>>, englishText |-> <<>>, translation |-> <<>>,
     category |-> "undefined", syntaxType |-> "undefined", disabled |-> FALSE,
     isRefreshing |-> FALSE]

\* handleDragEnter over the tag at position index when the list has become
\* shorter than the dragged position since the drag began: newTags[dragItem] is
\* undefined, the first splice removes nothing and the second inserts undefined
handleDragEnterGone(index) ==
    /\ dragItem # 0
    /\ dragItem # index
    /\ dragItem > Len(tags)
    /\ index \in 1..Len(tags)
    /\ tags' = InsertAt(tags, index, UndefinedTag)
    /\ prevTagsRef' = InsertAt(tags, index, UndefinedTag)
    /\ dragItem' = index
    /\ UNCHANGED <<histVars, reloads, insertTimers, observed, userOps, input, tagCache, latestInputRef,
                   isUpdatingFromTags, isInputChinese, timer, passes, nextPass, changedSince,
                   requested, dictVars>>

\* the render of a list that holds undefined throws, and the component is gone
Crashed == \E i \in 1..Len(tags) : tags[i] = UndefinedTag

NextList ==
    \/ ~Crashed /\ \E val \in TypedTexts : handleInputChange(val)
    \/ ~Crashed /\ TimerFires
    \/ ~Crashed /\ \E p \in passes : \E reply \in Replies(Len(p.uniqueMissing)) :
                       ServiceResolves(p, reply)
    \/ ~Crashed /\ \E i \in 1..Len(tags) : handleToggleTag(i)
    \/ ~Crashed /\ \E i \in 1..Len(tags) : handleRemoveTag(i)
    \/ ~Crashed /\ \E i \in 1..Len(tags) : handleDragStart(i)
    \/ ~Crashed /\ \E i \in 1..Len(tags) : handleDragEnter(i)
    \/ ~Crashed /\ \E i \in 1..Len(tags) : handleDragEnterGone(i)
    \/ ~Crashed /\ handleDragEnd

SpecList == InitList /\ [][NextList]_vars

\* a step of handleRemoveTag
RemoveStep == userOps' # userOps /\ input' # input /\ timer' = <<>> /\ Len(tags') = Len(tags) - 1

\* list is tagList without its element at position i
RemovedAt(list, tagList, i) ==
    /\ Len(list) = Len(tagList) - 1
    /\ \A j \in 1..Len(list) : list[j] = (IF j < i THEN tagList[j] ELSE tagList[j + 1])

\* the raw fields of the list joined with ', '
JoinedRaw(tagList) == Join([j \in 1..Len(tagList) |-> tagList[j].raw], <<",", " ">>)

\* C21: Remove deletes exactly the chosen tag and keeps the others in order,
\* sets the text to the remaining raw fields joined with ', ', and changes the
\* cache only when the removed tag was disabled: then the disabled flag of the
\* entry of its raw text becomes false.
C21_RemoveExactlyOne ==
    [][RemoveStep =>
          \E i \in 1..Len(tags) :
              /\ RemovedAt(tags', tags, i)
              /\ input' = JoinedRaw(tags')
              /\ tagCache' = IF tags[i].disabled
                             THEN SetCachedDisabled(tagCache, tags[i].raw, FALSE)
                             ELSE tagCache]_vars

\* a step of handleDragEnter
DragEnterStep == dragItem # 0 /\ dragItem' # 0 /\ dragItem' # dragItem

\* a step of handleDragEnd
DragEndStep == dragItem # 0 /\ dragItem' = 0

\* C22: a drag enter leaves a permutation of the list (the same tags with the
\* same fields) and does not touch the cache or the dictionary; drag end leaves
\* the list and sets the text to the raw fields of the list joined with ', '.
C22_ReorderIsPermutation ==
    [][/\ DragEnterStep =>
             /\ Len(tags') = Len(tags)
             /\ Range(tags') = Range(tags)
             /\ UNCHANGED <<tagCache, dictionary, storage, input>>
       /\ DragEndStep =>
             /\ tags' = tags
             /\ input' = JoinedRaw(tags)
             /\ UNCHANGED <<tagCache, dictionary, storage>>]_vars

-----------------------------------------------------------------------------
(* The display-language flip, under Spec *)

\* a step of handleLanguageToggle
FlipStep == isInputChinese' # isInputChinese

\* the display string of a tag in the language the flip turns to
TargetText(tag) == IF isInputChinese THEN tag.englishText ELSE tag.translation

\* the semantic data of two tags or cache entries agree
SameSemantics(x, y) ==
    /\ x.englishText = y.englishText
    /\ x.translation = y.translation
    /\ x.category = y.category
    /\ x.disabled = y.disabled

\* the list that the pass following a step publishes in its synchronous phase
FollowingPass ==
    LET rawSegments == splitInputToSegments(input')
    IN  FirstPass(rawSegments, 1,
                  [newTags |-> <<>>,
                   cache |-> DiffReset(tagCache', prevTagsRef', Range(rawSegments)),
                   missing |-> <<>>],
                  dictionary', 0).newTags

\* C23: a flip of a list whose tags are all resolved with both forms writes, for
\* each tag, a cache entry under the target display string with that string as
\* raw and the tag's englishText, translation, category and disabled; and the
\* pass that follows publishes at each position a tag with the same four values
\* as the tag there before the flip.
C23_FlipCarriesSemantics ==
    [][(FlipStep /\ BothFormsAligned) =>
          /\ \A i \in 1..Len(tags) :
                /\ HasKey(tagCache', TargetText(tags[i]))
                /\ tagCache'[TargetText(tags[i])].raw = TargetText(tags[i])
                /\ SameSemantics(tagCache'[TargetText(tags[i])], tags[i])
          /\ Len(FollowingPass) = Len(tags)
          /\ \A i \in 1..Len(tags) : SameSemantics(FollowingPass[i], tags[i])]_vars


-----------------------------------------------------------------------------
(* The progressive hints, under Spec *)

\* the step in which pass p takes its hint
HintStep(p) == ~p.hinted /\ passes' = (passes \ {p}) \cup {[p EXCEPT !.hinted = TRUE]}

\* tag u is tag t after a hint in Chinese
ChineseHinted(t, u) ==
    /\ isChinese(u.translation)
    /\ u = [t EXCEPT !.translation = u.translation]

\* tag u is tag t after a hint that is not in Chinese
OtherHinted(t, u) ==
    /\ u.englishText # <<>>
    /\ ~isChinese(u.englishText)
    /\ u = [t EXCEPT !.englishText = u.englishText, !.translation = t.raw]

-----------------------------------------------------------------------------
(* The final batch of a pass, under SpecList *)

\* the step in which the await of pass p resolves
ResolveStep(p) == passes' = passes \ {p} /\ observed' # observed /\ observed'.op = "resolved"

-----------------------------------------------------------------------------
(* Passes that write the same cache key, under SpecList *)

SameResolution(x, y) ==
    /\ x.englishText = y.englishText
    /\ x.translation = y.translation
    /\ x.category = y.category
    /\ x.syntaxType = y.syntaxType

\* C26: when the await of a pass resolves and the cache already holds an entry
\* under a segment the pass asked for (written or toggled while the pass was
\* in flight), and the pass writes the same englishText, translation, category
\* and syntaxType as that entry holds, then the entry is left as it was,
\* its disabled included
C26_LastWriterWins ==
    [][\A p \in passes : ResolveStep(p) =>
          \A k \in 1..Len(p.uniqueMissing) :
              (/\ HasKey(tagCache, p.uniqueMissing[k])
               /\ SameResolution(tagCache'[p.uniqueMissing[k]], tagCache[p.uniqueMissing[k]]))
                  => tagCache'[p.uniqueMissing[k]].disabled = tagCache[p.uniqueMissing[k]].disabled]_vars


-----------------------------------------------------------------------------
(* The keys of the learned dictionary: specification SpecKeys *)

\* segments the seed does not know: plain, upper case, bracketed, weighted
KeyLiterals == {<<"a">>, <<"A">>, <<"(", "a", ")">>, <<"c", ":", "1">>}

KeyTexts == {Join(segs, <<",">>) : segs \in SeqsUpTo(KeyLiterals, MaxSegs)}

InitKeys == TypedInit(KeyTexts)

NextKeys ==
    \/ TimerFires
    \/ \E p \in passes : \E reply \in Replies(Len(p.uniqueMissing)) : ServiceResolves(p, reply)

SpecKeys == InitKeys /\ [][NextKeys]_vars

\* the key under which processInput looks a segment up in the dictionary
LookupKey(segment) == Trim(toLowerCase(cleanTextForLookup(segment)))

\* C27: every key the dictionary gains when the await of a pass resolves is the
\* key under which the resolver looks up one of the segments the pass asked for
C27_LearnedUnderLookupKey ==
    [][\A p \in passes : ResolveStep(p) =>
          \A key \in DOMAIN dictionary' \ DOMAIN dictionary :
              \E k \in 1..Len(p.uniqueMissing) : key = LookupKey(p.uniqueMissing[k])]_vars


-----------------------------------------------------------------------------
(* classifySegments on its own: specification SpecClassify *)

NextClassify ==
    \/ \E n \in 0..MaxClassify : \E outcomes \in [1..NumChunks(n) -> ChunkOutcomes(n)] :
          ClassifyCall(n, outcomes)
    \/ \E n \in LongLengths : \E outcomes \in [1..NumChunks(n) -> LongOutcomes] :
          ClassifyCall(n, outcomes)

SpecClassify == TypedInit({<<>>}) /\ [][NextClassify]_vars

\* the chunk of the item at position i, and its position in the chunk
ChunkOf(i) == (i - 1) \div CLASSIFICATION_BATCH_SIZE + 1

PlaceIn(i) == i - (ChunkOf(i) - 1) * CLASSIFICATION_BATCH_SIZE

\* the number of items of chunk c of a list of n items
ChunkSize(n, c) ==
    IF c * CLASSIFICATION_BATCH_SIZE <= n THEN CLASSIFICATION_BATCH_SIZE
    ELSE n - (c - 1) * CLASSIFICATION_BATCH_SIZE

\* the category at position i of a list of n items, given the outcome of its
\* chunk: the fallback when the chunk got no array, the answer at the item's
\* place when there is one (an unknown name of a right-length answer replaced
\* by the fallback), the fallback when the answer is too short
CategoryAt(n, outcomes, i) ==
    LET outcome == outcomes[ChunkOf(i)]
    IN  IF outcome.kind # "array" THEN CatchAll
        ELSE IF PlaceIn(i) > Len(outcome.cats) THEN CatchAll
        ELSE IF Len(outcome.cats) = ChunkSize(n, ChunkOf(i))
                /\ outcome.cats[PlaceIn(i)] \notin CategoryNames THEN CatchAll
        ELSE outcome.cats[PlaceIn(i)]

\* C28: for every list and every combination of outcomes of its chunks
\* (thrown error, no array, array of the right or of a wrong length) the
\* result of classifySegments has the length of the list, and its i-th element
\* is decided by the outcome of the chunk of item i alone: the answer at the
\* place of item i in that chunk, or the fallback
C28_ChunksAligned ==
    observed.op = "classifySegments" =>
        /\ Len(observed.result) = observed.n
        /\ \A i \in 1..observed.n :
              observed.result[i] = CategoryAt(observed.n, observed.outcomes, i)

\* a list of two chunks was classified: the first chunk failed, the second
\* did not, and only the items of the first chunk have the fallback
C28_OneChunkFailed ==
    /\ observed.op = "classifySegments"
    /\ observed.n = CLASSIFICATION_BATCH_SIZE + 1
    /\ observed.outcomes[1].kind = "throw"
    /\ observed.outcomes[2].kind = "array"
    /\ observed.result[CLASSIFICATION_BATCH_SIZE] = CatchAll
    /\ observed.result[CLASSIFICATION_BATCH_SIZE + 1] = "Character"


-----------------------------------------------------------------------------
(* getTagRanges on its own: specification SpecRanges *)

\* inputText.split(/[,FW NL]+/): the pieces between the delimiter runs, the
\* runs themselves left out
RECURSIVE SplitRunsNoCapture(_, _, _)
SplitRunsNoCapture(text, cur, inRun) ==
    IF text = <<>> THEN <<cur>>
    ELSE IF Head(text) \in Delims
         THEN IF inRun THEN SplitRunsNoCapture(Tail(text), cur, TRUE)
              ELSE <<cur>> \o SplitRunsNoCapture(Tail(text), <<>>, TRUE)
         ELSE SplitRunsNoCapture(Tail(text), Append(cur, Head(text)), FALSE)

\* inputText.split(/([,FW NL]+)/): the pieces between the delimiter runs and,
\* by the capture group, the runs between them; cur is the part being read,
\* inRun tells that it is a delimiter run
RECURSIVE SplitRuns(_, _, _)
SplitRuns(text, cur, inRun) ==
    IF text = <<>> THEN (IF inRun THEN <<cur, <<>>>> ELSE <<cur>>)
    ELSE IF (Head(text) \in Delims) = inRun
         THEN SplitRuns(Tail(text), Append(cur, Head(text)), inRun)
         ELSE <<cur>> \o SplitRuns(Tail(text), <<Head(text)>>, ~inRun)

\* part.match(/^[,FW NL]+$/)
isDelimiter(part) == part # <<>> /\ \A i \in 1..Len(part) : part[i] \in Delims

\* the forEach of getTagRanges over the parts from position currentPos on
RECURSIVE RangesFrom(_, _, _)
RangesFrom(parts, currentPos, tagIdx) ==
    IF parts = <<>> THEN <<>>
    ELSE LET part == Head(parts)
             len == Len(part)
         IN  IF ~isDelimiter(part) /\ Len(Trim(part)) > 0
             THEN <<[index |-> tagIdx, start |-> currentPos, end |-> currentPos + len]>>
                      \o RangesFrom(Tail(parts), currentPos + len, tagIdx + 1)
             ELSE RangesFrom(Tail(parts), currentPos + len, tagIdx)

\* getTagRanges(inputText): positions count from 0, end is exclusive
getTagRanges(inputText) == RangesFrom(SplitRuns(inputText, <<>>, FALSE), 0, 0)

\* a call of getTagRanges on the text of the text area
TagRangesCall ==
    /\ observed' = [op |-> "getTagRanges", text |-> input, ranges |-> getTagRanges(input)]
    /\ UNCHANGED <<histVars, engineVars, userOps, dictVars>>

SpecRanges == InitText /\ [][TagRangesCall]_vars

\* inputText.slice(start, end)
Slice(text, start, end) == SubSeq(text, start + 1, end)

\* C29: for every text getTagRanges returns as many ranges as
\* splitInputToSegments returns segments; range i has index i (counted from 0),
\* is not empty, lies inside the text and ends before the next one starts; and
\* the trimmed text of range i is segment i
C29_RangesMatchSegments ==
    observed.op = "getTagRanges" =>
        LET ranges == observed.ranges
            segments == splitInputToSegments(observed.text)
        IN  /\ Len(ranges) = Len(segments)
            /\ \A i \in 1..Len(ranges) :
                  /\ ranges[i].index = i - 1
                  /\ 0 <= ranges[i].start
                  /\ ranges[i].start < ranges[i].end
                  /\ ranges[i].end <= Len(observed.text)
                  /\ i < Len(ranges) => ranges[i].end < ranges[i + 1].start
                  /\ Trim(Slice(observed.text, ranges[i].start, ranges[i].end)) = segments[i]

\* the ranges of a text with a run of two delimiters between its two segments
C29_RunOfDelimiters ==
    /\ observed.op = "getTagRanges"
    /\ observed.text = <<"a", ",", "NL", "c">>
    /\ observed.ranges = <<[index |-> 0, start |-> 0, end |-> 1], [index |-> 1, start |-> 3, end |-> 4]>>


-----------------------------------------------------------------------------
(* useHistory on its own: specification SpecHistory *)

NextHistory ==
    \/ \E text \in HistoryTexts : push(text, 0, 0)
    \/ \E text \in HistoryTexts : set(text, 0, 0)
    \/ HistoryTimerFires
    \/ undo
    \/ redo
    \/ clear

SpecHistory == Init /\ [][NextHistory]_vars

\* the stack holds between one and MAX_HISTORY entries and the pointer is an
\* index of it
HistoryBounds ==
    /\ 1 <= Len(historyRef)
    /\ Len(historyRef) <= MAX_HISTORY
    /\ 0 <= pointerRef
    /\ pointerRef <= Len(historyRef) - 1

\* a push on a full stack with the pointer at its top
OverflowStep ==
    /\ Len(historyRef) = MAX_HISTORY
    /\ pointerRef = MAX_HISTORY - 1
    /\ historyRef' # historyRef
    /\ Len(historyRef') > 1

\* C30: after any sequence of push, set, timer, undo, redo and clear the stack
\* holds at least one and at most MAX_HISTORY entries and the pointer is an index
\* of it; a push that overflows the stack drops the oldest entry, keeps the
\* others in order, and leaves the pointer on the new entry, the last one
C30_HistoryBounds ==
    /\ []HistoryBounds
    /\ [][OverflowStep =>
            /\ Len(historyRef') = MAX_HISTORY
            /\ SubSeq(historyRef', 1, MAX_HISTORY - 1) = Tail(historyRef)
            /\ pointerRef' = MAX_HISTORY - 1
            /\ historyRef'[MAX_HISTORY].text = present'
            /\ historyRef'[MAX_HISTORY].text # historyRef[MAX_HISTORY].text]_vars

\* the stack is full, the pointer is at its top, and the oldest entry is no
\* longer the empty text the stack began with: an entry was shifted out
C30_Overflowed ==
    /\ Len(historyRef) = MAX_HISTORY
    /\ pointerRef = MAX_HISTORY - 1
    /\ historyRef[1].text = <<"a">>


-----------------------------------------------------------------------------
(* useHistory with selections and three texts: specification SpecUndo *)

\* entries of the stack beyond which SpecUndo pushes no more
MaxStack == 3

UndoTexts == {<<>>, <<"a">>, <<"c">>}

\* cursor positions given to push and set (start and end alike)
Cursors == {0, 1}

NextUndo ==
    \/ \E text \in UndoTexts : \E cursor \in Cursors :
          Len(historyRef) <= MaxStack /\ push(text, cursor, cursor)
    \/ \E text \in UndoTexts : \E cursor \in Cursors : set(text, cursor, cursor)
    \/ Len(historyRef) <= MaxStack /\ HistoryTimerFires
    \/ undo
    \/ redo
    \/ clear

SpecUndo == Init /\ [][NextUndo]_vars

\* the text, the pointer and the stack after a redo taken in the primed state
RedoneText == historyRef'[pointerRef' + 2].text

\* C31: a push of a text other than that of the entry at the pointer leaves
\* the entries up to the pointer as they were, makes the pushed state the
\* next and last entry and moves the pointer to it, so that no redo is
\* possible; a push of the same text adds no entry, leaves the pointer and
\* every other entry alone and gives the entry at the pointer the selection
\* of the call; and after an undo a redo is possible at once and brings the
\* pointer and the displayed text back to what they were before the undo
C31_PushAndUndoRedo ==
    [][/\ \A text \in UndoTexts : \A cursor \in Cursors :
             (Len(historyRef) < MAX_HISTORY /\ push(text, cursor, cursor)) =>
                 IF text # historyRef[pointerRef + 1].text
                 THEN /\ Len(historyRef') = pointerRef + 2
                      /\ SubSeq(historyRef', 1, pointerRef + 1) = SubSeq(historyRef, 1, pointerRef + 1)
                      /\ historyRef'[pointerRef + 2] = HistoryState(text, cursor, cursor)
                      /\ pointerRef' = pointerRef + 1
                      /\ ~(pointerRef' < Len(historyRef') - 1)
                 ELSE /\ Len(historyRef') = Len(historyRef)
                      /\ pointerRef' = pointerRef
                      /\ \A i \in 1..Len(historyRef) :
                            i # pointerRef + 1 => historyRef'[i] = historyRef[i]
                      /\ historyRef'[pointerRef + 1] = HistoryState(text, cursor, cursor)
       /\ undo =>
             /\ pointerRef' < Len(historyRef') - 1
             /\ pointerRef' + 1 = pointerRef
             /\ RedoneText = present]_vars


\* the text of the entry at the pointer
PointedText == historyRef[pointerRef + 1].text

\* C32: a set shows its text at once, leaves the stack and the pointer alone
\* and leaves a timer holding its text; until the timer fires or is cleared no
\* step changes what it holds; when it fires it is gone, and the stack gains
\* one entry, holding the text of the last set, at the new pointer when that
\* text differs from the entry at the pointer, and is left alone when it does not
C32_SetIsDebounced ==
    [][/\ \A text \in UndoTexts : \A cursor \in Cursors :
             set(text, cursor, cursor) =>
                 /\ present' = text
                 /\ UNCHANGED <<historyRef, pointerRef>>
                 /\ timerRef' = <<text, cursor, cursor>>
       /\ (timerRef' # timerRef /\ timerRef' # <<>>) =>
             (present' = timerRef'[1] /\ UNCHANGED <<historyRef, pointerRef>>)
       /\ (timerRef # <<>> /\ HistoryTimerFires) =>
             /\ timerRef' = <<>>
             /\ IF timerRef[1] = PointedText
                THEN UNCHANGED <<historyRef, pointerRef>>
                ELSE /\ Len(historyRef') = pointerRef + 2
                     /\ pointerRef' = pointerRef + 1
                     /\ historyRef'[pointerRef' + 1] = HistoryState(timerRef[1], timerRef[2], timerRef[3])
                     /\ SubSeq(historyRef', 1, pointerRef + 1) = SubSeq(historyRef, 1, pointerRef + 1)]_vars

\* a set has shown a text that is in no entry yet: its timer is pending
C32_Pending ==
    /\ timerRef # <<>>
    /\ present = timerRef[1]
    /\ present # PointedText
    /\ Len(historyRef) > 1


-----------------------------------------------------------------------------
(* Overlapping passes and the published list, under SpecList *)

\* C33: when the await of a pass resolves after a later processInput call has
\* published its list, the published list is left as it was
C33_OlderPassNeverOverwrites ==
    [][\A p \in passes : (ResolveStep(p) /\ nextPass > p.no) => tags' = tags]_vars


\* a step of the service: a pass takes its hints or ends, and none begins
AsyncStep == passes' # passes /\ nextPass' = nextPass /\ userOps' = userOps

\* C34: a hint or a final result of a pass never enables a disabled tag: a
\* tag that is disabled before such a step and whose position still holds its
\* raw text afterwards is disabled afterwards
C34_ToggleIsDurable ==
    [][AsyncStep =>
          \A i \in 1..Len(tags) :
              (/\ tags[i].disabled
               /\ i <= Len(tags')
               /\ tags'[i].raw = tags[i].raw) => tags'[i].disabled]_vars


\* C35: every tag of the published list that is not pending and whose raw
\* text has a cache entry has the disabled value of that entry
C35_TagAgreesWithCache ==
    \A i \in 1..Len(tags) :
        (~tags[i].isRefreshing /\ HasKey(tagCache, tags[i].raw))
            => tags[i].disabled = tagCache[tags[i].raw].disabled


\* a step of handleInputChange: a user gesture outside a drag that changes the
\* text and leaves the list and the display language alone
EditStep ==
    /\ userOps' # userOps
    /\ dragItem = 0
    /\ dragItem' = 0
    /\ input' # input
    /\ tags' = tags
    /\ isInputChinese' = isInputChinese

\* C36: every text edit of the user leaves a debounce timer for the new text
C36_EditSchedulesPass ==
    [][EditStep => timer' = <<input'>>]_vars


\* C37: whenever no debounce timer is pending, no pass is in flight and no
\* drag is under way, the segments of the text are, in order, the raw fields
\* of the published tags
C37_TextMatchesTags ==
    (Quiescent /\ ~Crashed) => splitInputToSegments(input) = RawsOf(tags)


-----------------------------------------------------------------------------
(* Two flips of the display language, under SpecTags *)

\* the text that a flip back writes for a tag of the list after a flip:
\* handleLanguageToggle takes englishText when it leaves the Chinese display
\* and translation when it leaves the English one
BackText(tag) == IF isInputChinese' THEN tag.englishText ELSE tag.translation

\* C38: a flip of a list whose tags are all resolved with both forms can be
\* undone by a second flip: the pass that follows the flip publishes as many
\* tags as before, none pending, and the text a second flip writes for the tag
\* at each position is the raw text the position had before the first flip
C38_FlipIsInvolution ==
    [][(FlipStep /\ BothFormsAligned) =>
          /\ Len(FollowingPass) = Len(tags)
          /\ \A i \in 1..Len(tags) :
                /\ ~FollowingPass[i].isRefreshing
                /\ BackText(FollowingPass[i]) = tags[i].raw]_vars


-----------------------------------------------------------------------------
(* Reloading a tag that the user may have disabled: specification SpecReload *)

NextReload ==
    \/ TimerFires
    \/ \E p \in passes : \E reply \in Replies(Len(p.uniqueMissing)) : ServiceResolves(p, reply)
    \/ userOps < MaxTagOps /\ \E i \in 1..Len(tags) : handleToggleTag(i)
    \/ userOps < MaxTagOps /\ \E i \in 1..Len(tags) : handleReloadTag(i)
    \/ \E r \in reloads : \E reply \in Replies(1) : ReloadResolves(r, reply)
    \/ \E r \in reloads : ReloadRejects(r)

SpecReload == InitTags /\ [][NextReload]_vars

\* the step completes the reload r, with a result or with an error
ReloadCompletes(r) ==
    \/ \E reply \in Replies(1) : ReloadResolves(r, reply)
    \/ ReloadRejects(r)

\* C39: when a reload completes, the reloaded tag keeps the disabled value it
\* had at that moment, in the list and in the cache entry of its raw text when
\* the reload succeeded; a failed reload leaves the tag not pending; no other
\* tag changes
C39_ReloadKeepsDisabled ==
    [][\A r \in reloads : \A i \in 1..Len(tags) :
          (tags[i].id = r.id /\ ReloadCompletes(r)) =>
              /\ Len(tags') = Len(tags)
              /\ tags'[i].disabled = tags[i].disabled
              /\ ~tags'[i].isRefreshing
              /\ \A j \in 1..Len(tags) : j # i => tags'[j] = tags[j]
              /\ (~ReloadRejects(r)) =>
                    /\ HasKey(tagCache', tags[i].raw)
                    /\ tagCache'[tags[i].raw].disabled = tags[i].disabled]_vars


-----------------------------------------------------------------------------
(* clear and the snapshot timer of set, under SpecUndo *)

\* the history state that clear leaves: empty text, one entry for it
Cleared ==
    /\ present = <<>>
    /\ historyRef = <<HistoryState(<<>>, 0, 0)>>
    /\ pointerRef = 0

\* C40: clear leaves the empty text with exactly one entry, and a snapshot
\* timer that fires in that state, before any later set of another text or
\* push, adds no entry and leaves the text empty
C40_ClearStaysEmpty ==
    [][/\ clear => Cleared'
       /\ (Cleared /\ HistoryTimerFires) => Cleared']_vars

====
